---- MODULE Spec2Model ----
(***************************************************************************)
(* Aura memory engine (src/agents/memory): the bi-temporal graph, the      *)
(* knowledge graph, the episodic and procedural stores and the             *)
(* consolidator, modelled as state machines over their in-memory indexes   *)
(* and their on-disk state.                                                *)
(*                                                                         *)
(* Conventions.  Confidences, valences and rates are kept in tenths or as  *)
(* exact fractions.  Wall-clock instants are naturals; every call that     *)
(* reads datetime.now() reads an instant later than the previous one.      *)
(* Content-derived identifiers (sha256 prefixes) are modelled by the       *)
(* content they hash, uuid4 identifiers by the order of creation.          *)
(***************************************************************************)
EXTENDS Integers, Sequences, FiniteSets, TLC

(***************************************************************************)
(* Bounds of the model.                                                    *)
(***************************************************************************)
MaxTriples == 3
MaxTime == 3
MaxKGTriples == 2
MaxEpisodes == 3
MaxEpochs == 1
MaxLogs == 2
MaxMarks == 1
MaxSkills == 2
MaxUsage == 2
MaxSchedTime == 2
MaxInvocations == 2

(***************************************************************************)
(* Absent optional values (Python None).                                   *)
(***************************************************************************)
NoTime == -1
NoId == 0

VARIABLES
    tg_triples,   \* TemporalGraph.triples, by id (ids in order of creation)
    tg_log,       \* triples.jsonl, one serialized version per line
    tg_now,       \* the last instant read from the wall clock
    tg_ret,       \* what the last TemporalGraph call returned
    tg_chain,     \* history: how each (subject, predicate) pair was built
    kg_graph,     \* KnowledgeGraph._graph: id -> payload
    kg_disk,      \* graph.json
    kg_index,     \* _subject_index, _object_index, _predicate_index
    kg_chroma,    \* the "knowledge" vector collection: id -> flat metadata
    kg_hist,      \* history: the last two KnowledgeGraph calls and their results
    ep_cache,     \* EpisodicMemory._metadata_cache: payloads in insertion order
    ep_disk,      \* episodes_metadata.json
    ep_chroma,    \* the "episodes" vector collection: id -> status
    sk_cache,     \* ProceduralMemory._skills_cache: payloads in insertion order
    sk_disk,      \* skills.json
    sk_chroma,    \* the "skills" vector collection: the ids it holds
    cons_log,     \* consolidation_logs: one entry per file written
    mem_epoch,    \* wall clock of the stores, in retention windows (30 days)
    mem_ret,      \* the last call on the stores or the consolidator and its outcome
    sched_file,   \* memory_state.json: last_run, run_count, failures by task
    sched_proc,   \* the scheduler invocations: where each is, and its self.state
    sched_now,    \* wall clock of the scheduler, in units of 12 hours
    sched_ret,    \* the last job a scheduler invocation saw end, and how
    sched_started, \* history: how many invocations have been started
    ld_file,      \* a store's file as found at start-up: its records, in order
    ld_ret,       \* the last load: the store, whether it failed, what it holds
    bm_index,     \* BM25: corpus, doc_ids, doc_lengths of the last fit
    bm_ret,       \* the last BM25.score call and its result
    hs_documents, \* HybridSearchEngine.documents: (id, content) in insertion order
    hs_ret,       \* the last HybridSearchEngine.search call and its result
    hs_file       \* the file save_state wrote: the documents it held

tgvars == <<tg_triples, tg_log, tg_now, tg_ret, tg_chain>>

kgvars == <<kg_graph, kg_disk, kg_index, kg_chroma, kg_hist>>

memvars == <<ep_cache, ep_disk, ep_chroma, sk_cache, sk_disk, sk_chroma,
             cons_log, mem_epoch, mem_ret>>

schedvars == <<sched_file, sched_proc, sched_now, sched_ret, sched_started>>

loadvars == <<ld_file, ld_ret>>

searchvars == <<bm_index, bm_ret, hs_documents, hs_ret, hs_file>>

\* the variables of the components that follow the stores
extvars == <<schedvars, loadvars, searchvars>>

vars == <<tg_triples, tg_log, tg_now, tg_ret, tg_chain,
          kg_graph, kg_disk, kg_index, kg_chroma, kg_hist,
          ep_cache, ep_disk, ep_chroma, sk_cache, sk_disk, sk_chroma,
          cons_log, mem_epoch, mem_ret,
          sched_file, sched_proc, sched_now, sched_ret, sched_started,
          ld_file, ld_ret, bm_index, bm_ret, hs_documents, hs_ret, hs_file>>

(***************************************************************************)
(* Temporal graph: temporal_graph.py                                       *)
(***************************************************************************)
TGSubjects == {"Aura"}
TGPredicates == {"version", "runs_on"}
TGObjects == {"3.1", "3.2"}
TGNewObjects == {"", "3.2"}
TGPairs == TGSubjects \X TGPredicates
TGConfidences == {10}
TGNewConfidences == {NoTime, 5}
\* a caller-given instant: 0 lies before every clock read
TGGivenTimes == {NoTime, 0}

TGIds == 1..Len(tg_triples)

TemporalTriple(id, s, p, o, c, vf, vt, tt, ver, sup) ==
    [id |-> id, subject |-> s, predicate |-> p, object |-> o, confidence |-> c,
     valid_from |-> vf, valid_to |-> vt, transaction_time |-> tt,
     version |-> ver, supersedes |-> sup]

IsValidAt(t, point) ==
    /\ ~(point < t.valid_from)
    /\ ~(t.valid_to # NoTime /\ point > t.valid_to)

\* is_current() reads the clock when it is called: after the last recorded read
IsCurrent(t) == IsValidAt(t, tg_now + 1)

\* datetime.isoformat() text and its parse; JSON null is the empty tuple
IsoFormat(t) == <<"iso", t>>
FromIsoFormat(text) == text[2]
JsonNull == <<>>

\* TemporalTriple.to_dict: the instants as isoformat text, an absent valid_to as null
TGToDict(t) ==
    [id |-> t.id, subject |-> t.subject, predicate |-> t.predicate, object |-> t.object,
     confidence |-> t.confidence,
     valid_from |-> IsoFormat(t.valid_from),
     valid_to |-> IF t.valid_to # NoTime THEN IsoFormat(t.valid_to) ELSE JsonNull,
     transaction_time |-> IsoFormat(t.transaction_time),
     version |-> t.version, supersedes |-> t.supersedes]

\* TemporalTriple.from_dict: a falsy valid_to loads as None
TGFromDict(data) ==
    TemporalTriple(data.id, data.subject, data.predicate, data.object, data.confidence,
                   FromIsoFormat(data.valid_from),
                   IF data.valid_to # JsonNull THEN FromIsoFormat(data.valid_to) ELSE NoTime,
                   FromIsoFormat(data.transaction_time), data.version, data.supersedes)

\* _index_triple: self.triples[triple.id] = triple (ids are fresh, so an append)
IndexTriple(triples, t) == Append(triples, t)

SaveTriple(log, t) == Append(log, TGToDict(t))

\* _load: replay the log into an empty index
RECURSIVE TGLoadFrom(_, _)
TGLoadFrom(log, acc) ==
    IF log = <<>> THEN acc
    ELSE TGLoadFrom(Tail(log), IndexTriple(acc, TGFromDict(Head(log))))

TGLoad(log) == TGLoadFrom(log, <<>>)

SubjectIndex(s) == {i \in TGIds : tg_triples[i].subject = s}
PredicateIndex(p) == {i \in TGIds : tg_triples[i].predicate = p}
ObjectIndex(o) == {i \in TGIds : tg_triples[i].object = o}

\* query_at_time: an empty filter ("" stands for None) is not applied
QueryAtTime(point, s, p, o) ==
    LET c1 == IF s # "" THEN TGIds \cap SubjectIndex(s) ELSE TGIds
        c2 == IF p # "" THEN c1 \cap PredicateIndex(p) ELSE c1
        c3 == IF o # "" THEN c2 \cap ObjectIndex(o) ELSE c2
    IN {i \in c3 : IsValidAt(tg_triples[i], point)}

\* list.sort(key=valid_from): stable insertion into an already sorted list
RECURSIVE TGInsertSorted(_, _)
TGInsertSorted(sorted, t) ==
    IF sorted = <<>> THEN <<t>>
    ELSE IF sorted[Len(sorted)].valid_from <= t.valid_from THEN Append(sorted, t)
    ELSE Append(TGInsertSorted(SubSeq(sorted, 1, Len(sorted) - 1), t), sorted[Len(sorted)])

RECURSIVE TGSortFrom(_, _)
TGSortFrom(rest, acc) ==
    IF rest = <<>> THEN acc ELSE TGSortFrom(Tail(rest), TGInsertSorted(acc, Head(rest)))

GetHistory(s, p) ==
    TGSortFrom(SelectSeq(tg_triples, LAMBDA t : t.subject = s /\ t.predicate = p), <<>>)

\* history of a pair: "none", then "chain" while it holds one add with default
\* validity followed by updates of the latest id without a valid_to, else "other"
ChainAfterAdd(pair, vf, vt, id) ==
    IF tg_chain[pair].kind = "none" /\ vf = NoTime /\ vt = NoTime
    THEN [tg_chain EXCEPT ![pair] = [kind |-> "chain", latest |-> id, updates |-> 0]]
    ELSE [tg_chain EXCEPT ![pair] = [kind |-> "other", latest |-> NoId, updates |-> 0]]

ChainAfterUpdate(pair, id, vt, newid) ==
    IF tg_chain[pair].kind = "chain" /\ tg_chain[pair].latest = id /\ vt = NoTime
    THEN [tg_chain EXCEPT ![pair] = [kind |-> "chain", latest |-> newid,
                                      updates |-> tg_chain[pair].updates + 1]]
    ELSE [tg_chain EXCEPT ![pair] = [kind |-> "other", latest |-> NoId, updates |-> 0]]

TGAdd(s, p, o, c, vf, vt) ==
    /\ Len(tg_triples) < MaxTriples
    /\ tg_now < MaxTime
    /\ LET now == tg_now + 1
           id == Len(tg_triples) + 1
           t == TemporalTriple(id, s, p, o, c, IF vf # NoTime THEN vf ELSE now, vt, now, 1, NoId)
       IN /\ tg_now' = now
          /\ tg_triples' = IndexTriple(tg_triples, t)
          /\ tg_log' = SaveTriple(tg_log, t)
          /\ tg_ret' = [op |-> "add", result |-> id]
          /\ tg_chain' = ChainAfterAdd(<<s, p>>, vf, vt, id)
          /\ UNCHANGED <<kgvars, memvars, extvars>>

\* update of an unknown id returns None before anything is read or written
TGUpdateUnknown(id) ==
    /\ id \notin TGIds
    /\ tg_ret' = [op |-> "update", result |-> NoId]
    /\ UNCHANGED <<tg_triples, tg_log, tg_now, tg_chain>>
    /\ UNCHANGED <<kgvars, memvars, extvars>>

TGUpdate(id, newobj, newconf, vt) ==
    /\ id \in TGIds
    /\ Len(tg_triples) < MaxTriples
    /\ tg_now < MaxTime
    /\ LET now == tg_now + 1
           old == tg_triples[id]
           newid == Len(tg_triples) + 1
           closed == [tg_triples EXCEPT ![id].valid_to = now]
           t == TemporalTriple(newid, old.subject, old.predicate,
                               IF newobj # "" THEN newobj ELSE old.object,
                               IF newconf # NoTime THEN newconf ELSE old.confidence,
                               now, vt, now, old.version + 1, id)
       IN /\ tg_now' = now
          /\ tg_triples' = IndexTriple(closed, t)
          /\ tg_log' = SaveTriple(tg_log, t)
          /\ tg_ret' = [op |-> "update", result |-> newid]
          /\ tg_chain' = ChainAfterUpdate(<<old.subject, old.predicate>>, id, vt, newid)
          /\ UNCHANGED <<kgvars, memvars, extvars>>

TGInvalidate(id) ==
    /\ id \in TGIds
    /\ tg_now < MaxTime
    /\ tg_now' = tg_now + 1
    /\ tg_triples' = [tg_triples EXCEPT ![id].valid_to = tg_now + 1]
    /\ tg_ret' = [op |-> "invalidate", result |-> id]
    /\ tg_chain' = [tg_chain EXCEPT ![<<tg_triples[id].subject, tg_triples[id].predicate>>] =
                        [kind |-> "other", latest |-> NoId, updates |-> 0]]
    /\ UNCHANGED tg_log
    /\ UNCHANGED <<kgvars, memvars, extvars>>

\* a new process: TemporalGraph.__init__ rebuilds the index from the log
TGRestart ==
    /\ tg_triples' = TGLoad(tg_log)
    /\ tg_ret' = [op |-> "restart", result |-> NoId]
    /\ UNCHANGED <<tg_log, tg_now, tg_chain>>
    /\ UNCHANGED <<kgvars, memvars, extvars>>

TGInit ==
    /\ tg_triples = <<>>
    /\ tg_log = <<>>
    /\ tg_now = 0
    /\ tg_ret = [op |-> "init", result |-> NoId]
    /\ tg_chain = [pair \in TGPairs |-> [kind |-> "none", latest |-> NoId, updates |-> 0]]

TGNext ==
    \/ \E s \in TGSubjects, p \in TGPredicates, o \in TGObjects, c \in TGConfidences,
          vf \in TGGivenTimes, vt \in TGGivenTimes : TGAdd(s, p, o, c, vf, vt)
    \/ \E id \in TGIds, newobj \in TGNewObjects, newconf \in TGNewConfidences,
          vt \in TGGivenTimes : TGUpdate(id, newobj, newconf, vt)
    \/ \E id \in 1..MaxTriples : TGUpdateUnknown(id)
    \/ \E id \in TGIds : TGInvalidate(id)
    \/ TGRestart

(***************************************************************************)
(* Knowledge graph: knowledge_graph.py                                     *)
(*                                                                         *)
(* A payload's metadata is a dict when it was built by to_dict or loaded   *)
(* from JSON, and a MemoryMetadata object once from_dict has been applied  *)
(* to the stored payload: from_dict replaces data['metadata'] in the dict  *)
(* it is handed (memory_types.py:169-170), and the stores hand it their    *)
(* own payloads.                                                           *)
(***************************************************************************)
KGSubjects == {"python", "Python"}
KGObjects == {"aura", "linux"}
KGEntities == KGSubjects \cup KGObjects
KGPredicates == {"uses"}
KGConfidences == {5, 9}
KGDirections == {"outgoing", "incoming", "both"}

\* str.lower()
Lower(text) ==
    CASE text = "Python" -> "python"
      [] text = "Aura" -> "aura"
      [] text = "Deploy" -> "deploy"
      [] OTHER -> text

\* what the consolidator adds for an episode's entities: the predicate and the
\* objects "episode_<id prefix>"
MentionedIn == "mentioned_in"
EpisodeRefs == <<"episode_1", "episode_2", "episode_3", "episode_4", "episode_5">>

\* the keys the three indexes can hold
KGLowerNames ==
    {Lower(e) : e \in KGEntities} \cup {Lower(p) : p \in KGPredicates}
    \cup {MentionedIn} \cup {EpisodeRefs[i] : i \in DOMAIN EpisodeRefs}

\* KnowledgeTriple._generate_id: a hash of "subject:predicate:object", case kept
KGGenerateId(s, p, o) == <<s, p, o>>

\* an exception left the call
Raised == <<>>

\* KnowledgeTriple.to_dict of a new triple: the metadata is a plain dict
KGToDict(s, p, o, c, src) ==
    [subject |-> s, predicate |-> p, object |-> o, confidence |-> c,
     source_episode |-> src, metadata |-> "dict"]

\* KnowledgeTriple.from_dict(data): data['metadata'] becomes a MemoryMetadata
KGFromDictInPlace(data) == [data EXCEPT !.metadata = "object"]

KGEmptyIndex == [name \in KGLowerNames |-> {}]

\* json.dumps(self._graph) raises TypeError on a MemoryMetadata value
KGSerializable(graph) == \A id \in DOMAIN graph : graph[id].metadata = "dict"

\* _rebuild_indices
KGRebuildIndices(graph) ==
    [subject |-> [name \in KGLowerNames |->
                     {id \in DOMAIN graph : Lower(graph[id].subject) = name}],
     object |-> [name \in KGLowerNames |->
                     {id \in DOMAIN graph : Lower(graph[id].object) = name}],
     predicate |-> [name \in KGLowerNames |->
                     {id \in DOMAIN graph : Lower(graph[id].predicate) = name}]]

\* the three index updates at the end of add_triple
KGIndexAdd(index, s, p, o, id) ==
    [subject |-> [index.subject EXCEPT ![Lower(s)] = @ \cup {id}],
     object |-> [index.object EXCEPT ![Lower(o)] = @ \cup {id}],
     predicate |-> [index.predicate EXCEPT ![Lower(p)] = @ \cup {id}]]

\* _find_existing_triple: the ids it may return (it returns the first match in
\* the iteration order of a set)
KGFindExisting(graph, index, s, p, o) ==
    {id \in index.subject[Lower(s)] :
        /\ id \in DOMAIN graph
        /\ Lower(graph[id].predicate) = Lower(p)
        /\ Lower(graph[id].object) = Lower(o)}

\* the stored triples that are (s, p, o) up to case
KGMatching(graph, s, p, o) ==
    {id \in DOMAIN graph :
        /\ Lower(graph[id].subject) = Lower(s)
        /\ Lower(graph[id].predicate) = Lower(p)
        /\ Lower(graph[id].object) = Lower(o)}

KGPut(graph, id, data) ==
    [x \in DOMAIN graph \cup {id} |-> IF x = id THEN data ELSE graph[x]]

\* add_triple on the stores st = [graph, disk, index, chroma]: the stores
\* after the call and its result, for the existing id it found (or Raised
\* when it found none)
KGAddTripleResult(st, s, p, o, c, src, existing) ==
    IF existing # Raised
    THEN IF c > st.graph[existing].confidence
         THEN LET g1 == [st.graph EXCEPT ![existing].confidence = c]
              IN IF st.graph[existing].metadata # "dict"
                 THEN [st EXCEPT !.graph = g1, !.result = Raised]
                 ELSE IF ~KGSerializable(g1)
                 THEN [st EXCEPT !.graph = g1, !.result = Raised]
                 ELSE [st EXCEPT !.graph = g1, !.disk = g1, !.result = existing]
         ELSE [st EXCEPT !.result = existing]
    ELSE LET id == KGGenerateId(s, p, o)
             ch == KGPut(st.chroma, id, c)
             g1 == KGPut(st.graph, id, KGToDict(s, p, o, c, src))
         IN IF ~KGSerializable(g1)
            THEN [st EXCEPT !.chroma = ch, !.graph = g1, !.result = Raised]
            ELSE [st EXCEPT !.chroma = ch, !.graph = g1, !.disk = g1,
                            !.index = KGIndexAdd(st.index, s, p, o, id), !.result = id]

KGStores == [graph |-> kg_graph, disk |-> kg_disk, index |-> kg_index,
             chroma |-> kg_chroma, result |-> Raised]

\* a call that is not add_triple, as the history keeps it
KGOtherCall == [op |-> "other", s |-> "", p |-> "", o |-> "", c |-> 0,
                result |-> Raised, fresh |-> FALSE]

KGHistAppend(call) ==
    IF Len(kg_hist) < 2 THEN Append(kg_hist, call) ELSE <<kg_hist[2], call>>

KGAddTriple(s, p, o, c) ==
    LET found == KGFindExisting(kg_graph, kg_index, s, p, o)
    IN /\ \/ found # {}
          \/ KGGenerateId(s, p, o) \in DOMAIN kg_graph
          \/ Cardinality(DOMAIN kg_graph) < MaxKGTriples
       /\ \E existing \in IF found = {} THEN {Raised} ELSE found :
            LET r == KGAddTripleResult(KGStores, s, p, o, c, NoId, existing)
            IN /\ kg_graph' = r.graph
               /\ kg_disk' = r.disk
               /\ kg_index' = r.index
               /\ kg_chroma' = r.chroma
               /\ kg_hist' = KGHistAppend([op |-> "add_triple", s |-> s, p |-> p, o |-> o,
                                           c |-> c, result |-> r.result,
                                           fresh |-> KGMatching(kg_graph, s, p, o) = {}])
       /\ UNCHANGED <<tgvars, memvars, extvars>>

\* get_relations: from_dict on every stored payload the indexes lead to
KGRelationIds(graph, index, entity, direction) ==
    (IF direction \in {"outgoing", "both"}
     THEN index.subject[Lower(entity)] \cap DOMAIN graph ELSE {})
    \cup
    (IF direction \in {"incoming", "both"}
     THEN index.object[Lower(entity)] \cap DOMAIN graph ELSE {})

KGGetRelations(entity, direction) ==
    LET ids == KGRelationIds(kg_graph, kg_index, entity, direction)
    IN /\ kg_graph' = [id \in DOMAIN kg_graph |->
                          IF id \in ids THEN KGFromDictInPlace(kg_graph[id]) ELSE kg_graph[id]]
       /\ kg_hist' = KGHistAppend(KGOtherCall)
       /\ UNCHANGED <<kg_disk, kg_index, kg_chroma>>
       /\ UNCHANGED <<tgvars, memvars, extvars>>

\* a new process: KnowledgeGraph.__init__ loads graph.json and rebuilds the indexes
KGRestart ==
    /\ kg_graph' = kg_disk
    /\ kg_index' = KGRebuildIndices(kg_disk)
    /\ kg_hist' = KGHistAppend(KGOtherCall)
    /\ UNCHANGED <<kg_disk, kg_chroma>>
    /\ UNCHANGED <<tgvars, memvars, extvars>>

KGInit ==
    /\ kg_graph = <<>>
    /\ kg_disk = <<>>
    /\ kg_index = [subject |-> KGEmptyIndex, object |-> KGEmptyIndex, predicate |-> KGEmptyIndex]
    /\ kg_chroma = <<>>
    /\ kg_hist = <<>>

KGNext ==
    \/ \E s \in KGSubjects, p \in KGPredicates, o \in KGObjects, c \in KGConfidences :
          KGAddTriple(s, p, o, c)
    \/ \E e \in KGEntities, d \in KGDirections : KGGetRelations(e, d)
    \/ KGRestart


(***************************************************************************)
(* Exact fractions <<numerator, denominator>> in lowest terms with a       *)
(* positive denominator, for the valences, rates and scores.               *)
(***************************************************************************)
Abs(n) == IF n < 0 THEN 0 - n ELSE n

Min(a, b) == IF a <= b THEN a ELSE b

RECURSIVE Gcd(_, _)
Gcd(a, b) == IF b = 0 THEN a ELSE Gcd(b, a % b)

Rat(n, d) == LET g == Gcd(Abs(n), d) IN <<n \div g, d \div g>>

RatAdd(x, y) == Rat(x[1] * y[2] + y[1] * x[2], x[2] * y[2])
RatSub(x, y) == Rat(x[1] * y[2] - y[1] * x[2], x[2] * y[2])
RatMul(x, y) == Rat(x[1] * y[1], x[2] * y[2])
RatLeq(x, y) == x[1] * y[2] <= y[1] * x[2]
RatMin(x, y) == IF RatLeq(x, y) THEN x ELSE y

\* a value given in tenths
Tenths(n) == Rat(n, 10)

Zero == Rat(0, 1)
One == Rat(1, 1)

(***************************************************************************)
(* Payload caches shared by the episodic and the procedural store: Python  *)
(* dicts keep insertion order, so a cache is the sequence of its payloads. *)
(* Payload fields that no modelled operation reads (descriptions,          *)
(* previews, embeddings) are left out, and so is a skill's action          *)
(* template, which is written where and when its pattern is.               *)
(***************************************************************************)
CacheIds(cache) == {cache[i].id : i \in DOMAIN cache}

CachePos(cache, id) == CHOOSE i \in DOMAIN cache : cache[i].id = id

\* json.dumps(cache) raises TypeError on a MemoryMetadata value
JsonSerializable(cache) == \A i \in DOMAIN cache : cache[i].metadata = "dict"

\* cache[id] = payload: a known key keeps its place, a new one goes last
CachePut(cache, payload) ==
    IF payload.id \in CacheIds(cache)
    THEN [cache EXCEPT ![CachePos(cache, payload.id)] = payload]
    ELSE Append(cache, payload)

\* the orders in which a vector query may rank a set of ids
Orders(ids) ==
    {f \in [1..Cardinality(ids) -> ids] :
        \A i, j \in 1..Cardinality(ids) : i # j => f[i] # f[j]}

\* calculate_recency_score: exp(-age / decay), age in retention windows of
\* recency_decay_days, to the thousandth
RecencyScore(age) ==
    CASE age = 0 -> Rat(1000, 1000)
      [] age = 1 -> Rat(367, 1000)
      [] age = 2 -> Rat(135, 1000)
      [] OTHER -> Rat(49, 1000)

\* MemoryScore.combined_score
CombinedScore(score) ==
    RatAdd(RatAdd(RatMul(score.similarity, Tenths(4)), RatMul(score.importance, Tenths(3))),
           RatAdd(RatMul(score.recency, Tenths(2)), RatMul(score.access_frequency, Tenths(1))))

\* the distances a vector query may report (the collections are created with
\* the default space, squared L2: unit vectors lie between 0 and 4 apart)
Distances == {0, 15}

\* list.sort(key=combined_score, reverse=True), stable
RECURSIVE InsertByScore(_, _)
InsertByScore(sorted, pair) ==
    IF sorted = <<>> THEN <<pair>>
    ELSE IF RatLeq(CombinedScore(pair.score), CombinedScore(sorted[Len(sorted)].score))
         THEN Append(sorted, pair)
         ELSE Append(InsertByScore(SubSeq(sorted, 1, Len(sorted) - 1), pair),
                     sorted[Len(sorted)])

RECURSIVE SortByScore(_, _)
SortByScore(rest, acc) ==
    IF rest = <<>> THEN acc ELSE SortByScore(Tail(rest), InsertByScore(acc, Head(rest)))

(***************************************************************************)
(* Episodic memory: episodic_memory.py                                     *)
(***************************************************************************)
\* the interactions callers record: context and action (as tokens), valence
\* in tenths, entities; their texts match none of the extraction patterns of
\* extract_triples_from_text
MemInteractions ==
    {[context |-> <<"terminal">>, action |-> <<"Deploy", "api", "now", "v1">>,
      valence |-> 6, entities |-> <<"Aura">>],
     [context |-> <<"terminal">>, action |-> <<"deploy", "api", "now", "v2">>,
      valence |-> -5, entities |-> <<>>],
     [context |-> <<"terminal">>, action |-> <<"backup", "db">>,
      valence |-> 6, entities |-> <<>>]}

\* record_interaction's default importance, in tenths
DefaultImportance == 5

\* Episode.to_dict of a new episode; metadata.status and
\* metadata.access_count are kept beside the form of the metadata value
EpisodeToDict(id, timestamp, x) ==
    [id |-> id, timestamp |-> timestamp, context |-> x.context, action |-> x.action,
     emotional_valence |-> x.valence, entities |-> x.entities,
     importance |-> DefaultImportance, status |-> "ACTIVE", access_count |-> 0,
     metadata |-> "dict", consolidated_into |-> <<>>]

\* Episode.from_dict(data) replaces data['metadata'] by a MemoryMetadata, then
\* calls Episode(**data), which rejects the key consolidated_into
EpFromDictInPlace(data) == [data EXCEPT !.metadata = "object"]

EpFromDictRaises(data) == data.consolidated_into # <<>>

\* a ConsolidationResult with every counter at zero
ZeroResult ==
    [episodes_processed |-> 0, skills_created |-> 0, skills_updated |-> 0,
     triples_extracted |-> 0, episodes_archived |-> 0]

\* the stores a call works on, the counters of the consolidation under way,
\* and whether an exception left the call
MemStores ==
    [ep |-> ep_cache, epd |-> ep_disk, epc |-> ep_chroma,
     sk |-> sk_cache, skd |-> sk_disk, skc |-> sk_chroma,
     kg |-> KGStores, log |-> cons_log, res |-> ZeroResult, raised |-> FALSE]

\* _save_metadata_cache
EpSave(st) ==
    IF JsonSerializable(st.ep) THEN [st EXCEPT !.epd = st.ep] ELSE [st EXCEPT !.raised = TRUE]

\* store: upsert into the collection, put the payload in the cache, save
EpStore(st, payload) ==
    EpSave([st EXCEPT !.epc = KGPut(st.epc, payload.id, payload.status),
                      !.ep = CachePut(st.ep, payload)])

\* mark_consolidated's loop: each known id gets the status and the reference,
\* unless its metadata no longer takes an item assignment
RECURSIVE EpMarkEach(_, _, _)
EpMarkEach(cache, ids, skill_id) ==
    IF ids = <<>> THEN [cache |-> cache, raised |-> FALSE, count |-> 0]
    ELSE IF Head(ids) \notin CacheIds(cache) THEN EpMarkEach(cache, Tail(ids), skill_id)
    ELSE LET i == CachePos(cache, Head(ids))
         IN IF cache[i].metadata # "dict"
            THEN [cache |-> cache, raised |-> TRUE, count |-> 0]
            ELSE LET r == EpMarkEach([cache EXCEPT ![i].status = "CONSOLIDATED",
                                                    ![i].consolidated_into = Append(@, skill_id)],
                                     Tail(ids), skill_id)
                 IN [r EXCEPT !.count = @ + 1]

EpMarkConsolidated(st, ids, skill_id) ==
    LET m == EpMarkEach(st.ep, ids, skill_id)
    IN IF m.raised THEN [st EXCEPT !.ep = m.cache, !.raised = TRUE]
       ELSE IF m.count > 0 THEN EpSave([st EXCEPT !.ep = m.cache])
       ELSE st

\* archive_episode of a known id
EpArchive(st, id) ==
    LET i == CachePos(st.ep, id)
    IN IF st.ep[i].metadata # "dict" THEN [st EXCEPT !.raised = TRUE]
       ELSE LET s1 == EpSave([st EXCEPT !.ep[i].status = "ARCHIVED"])
            IN IF s1.raised THEN s1 ELSE [s1 EXCEPT !.epc[id] = "ARCHIVED"]

\* _update_access_stats then Episode.from_dict on the stored payload
EpGetEpisode(st, id) ==
    LET i == CachePos(st.ep, id)
    IN IF st.ep[i].metadata # "dict" THEN [st EXCEPT !.raised = TRUE]
       ELSE [st EXCEPT !.ep[i] = EpFromDictInPlace([@ EXCEPT !.access_count = @ + 1]),
                       !.raised = EpFromDictRaises(st.ep[i])]

\* from_dict on every payload in turn, up to the first one it rejects
EpFromDictAll(cache) ==
    LET bad == {i \in DOMAIN cache : EpFromDictRaises(cache[i])}
        last == IF bad = {} THEN Len(cache) ELSE CHOOSE i \in bad : \A j \in bad : i <= j
    IN [cache |-> [i \in DOMAIN cache |->
                      IF i <= last THEN EpFromDictInPlace(cache[i]) ELSE cache[i]],
        raised |-> bad # {}]

\* list.sort(key=emotional_valence, reverse=True), stable
RECURSIVE InsertByValence(_, _)
InsertByValence(sorted, e) ==
    IF sorted = <<>> THEN <<e>>
    ELSE IF sorted[Len(sorted)].emotional_valence >= e.emotional_valence THEN Append(sorted, e)
    ELSE Append(InsertByValence(SubSeq(sorted, 1, Len(sorted) - 1), e), sorted[Len(sorted)])

RECURSIVE SortByValence(_, _)
SortByValence(rest, acc) ==
    IF rest = <<>> THEN acc ELSE SortByValence(Tail(rest), InsertByValence(acc, Head(rest)))

\* list.sort(key=timestamp, reverse=True), stable
RECURSIVE InsertByTimestamp(_, _)
InsertByTimestamp(sorted, e) ==
    IF sorted = <<>> THEN <<e>>
    ELSE IF sorted[Len(sorted)].timestamp >= e.timestamp THEN Append(sorted, e)
    ELSE Append(InsertByTimestamp(SubSeq(sorted, 1, Len(sorted) - 1), e), sorted[Len(sorted)])

RECURSIVE SortByTimestamp(_, _)
SortByTimestamp(rest, acc) ==
    IF rest = <<>> THEN acc ELSE SortByTimestamp(Tail(rest), InsertByTimestamp(acc, Head(rest)))

\* get_successful_episodes: the episodes it returns when no from_dict raises
EpSuccessful(cache, min_valence, limit) ==
    LET found == SelectSeq(cache, LAMBDA e : /\ e.emotional_valence >= min_valence
                                             /\ e.status = "ACTIVE")
        sorted == SortByValence(found, <<>>)
    IN SubSeq(sorted, 1, Min(limit, Len(sorted)))

\* get_recent_episodes, likewise
EpRecent(cache, limit) ==
    LET found == SelectSeq(cache, LAMBDA e : e.status # "ARCHIVED")
        sorted == SortByTimestamp(found, <<>>)
    IN SubSeq(sorted, 1, Min(limit, Len(sorted)))

\* recall's score of one candidate
EpScore(cache, e, distance) ==
    LET counts == {cache[i].access_count : i \in DOMAIN cache}
        max_access == CHOOSE m \in counts : \A n \in counts : n <= m
    IN [similarity |-> RatSub(One, Tenths(distance)),
        importance |-> Tenths(e.importance),
        recency |-> RecencyScore(mem_epoch - e.timestamp),
        access_frequency |-> IF max_access > 0 THEN Rat(e.access_count, max_access) ELSE Zero]

\* recall's loop over the ranked candidates: from_dict on the stored payload,
\* the importance filter, then the score, whose max over the cache calls
\* .get on every payload's metadata
RECURSIVE EpRecallEach(_, _, _, _, _)
EpRecallEach(st, order, min_importance, distance, scored) ==
    IF order = <<>> THEN [st |-> st, scored |-> scored]
    ELSE IF Head(order) \notin CacheIds(st.ep)
    THEN EpRecallEach(st, Tail(order), min_importance, distance, scored)
    ELSE LET i == CachePos(st.ep, Head(order))
             s1 == [st EXCEPT !.ep[i] = EpFromDictInPlace(@)]
         IN IF EpFromDictRaises(st.ep[i]) THEN [st |-> [s1 EXCEPT !.raised = TRUE], scored |-> scored]
            ELSE IF st.ep[i].importance < min_importance
            THEN EpRecallEach(s1, Tail(order), min_importance, distance, scored)
            ELSE IF ~JsonSerializable(s1.ep)
            THEN [st |-> [s1 EXCEPT !.raised = TRUE], scored |-> scored]
            ELSE EpRecallEach([s1 EXCEPT !.ep[i].access_count = @ + 1], Tail(order),
                              min_importance, distance,
                              Append(scored, [id |-> Head(order),
                                              score |-> EpScore(s1.ep, s1.ep[i], distance)]))

(***************************************************************************)
(* Procedural memory: procedural_memory.py                                 *)
(***************************************************************************)
\* Skill._generate_id: a hash of "name:pattern"
SkillGenerateId(name, pattern) == <<name, pattern>>

\* Skill.to_dict of a new skill; hist_failures is history: how many of the
\* recorded uses behind usage_count were failures
SkillToDict(name, pattern, trigger_conditions, success_rate, source_episodes, created_at) ==
    [id |-> SkillGenerateId(name, pattern), name |-> name, pattern |-> pattern,
     trigger_conditions |-> trigger_conditions,
     success_rate |-> success_rate, usage_count |-> 0,
     source_episodes |-> source_episodes, created_at |-> created_at,
     metadata |-> "dict", hist_failures |-> 0]

\* Skill.from_dict(data) replaces data['metadata'] by a MemoryMetadata
SkFromDictInPlace(data) == [data EXCEPT !.metadata = "object"]

\* _save_skills_cache
SkSave(st) ==
    IF JsonSerializable(st.sk) THEN [st EXCEPT !.skd = st.sk] ELSE [st EXCEPT !.raised = TRUE]

\* store: upsert into the collection, put skill.to_dict() in the cache, save
SkStore(st, payload) ==
    SkSave([st EXCEPT !.skc = @ \cup {payload.id},
                      !.sk = CachePut(st.sk, [payload EXCEPT !.metadata = "dict"])])

\* get_skill_by_name: the place of the first payload with that name, 0 for None
SkPosByName(cache, name) ==
    LET named == {i \in DOMAIN cache : cache[i].name = name}
    IN IF named = {} THEN 0 ELSE CHOOSE i \in named : \A j \in named : i <= j

\* update_skill of a known id: from_dict, the new pattern and the new trigger
\* conditions when they are not empty ("if pattern:", "if
\* trigger_conditions:"), then store
SkUpdateSkill(st, id, pattern, trigger_conditions) ==
    LET i == CachePos(st.sk, id)
        s1 == [st EXCEPT !.sk[i] = SkFromDictInPlace(@)]
    IN SkStore(s1, [s1.sk[i] EXCEPT
                       !.pattern = IF pattern # <<>> THEN pattern ELSE @,
                       !.trigger_conditions =
                           IF trigger_conditions # <<>> THEN trigger_conditions ELSE @])

\* add_source_episode of a known skill id: the list is appended to in place
\* before the metadata is touched
SkAddSourceEpisode(st, id, episode_id) ==
    LET i == CachePos(st.sk, id)
        sources == st.sk[i].source_episodes
    IN IF \E k \in DOMAIN sources : sources[k] = episode_id THEN st
       ELSE LET s1 == [st EXCEPT !.sk[i].source_episodes = Append(@, episode_id)]
            IN IF st.sk[i].metadata # "dict" THEN [s1 EXCEPT !.raised = TRUE] ELSE SkSave(s1)

RECURSIVE SkAddSourceEpisodes(_, _, _)
SkAddSourceEpisodes(st, id, episode_ids) ==
    IF episode_ids = <<>> \/ st.raised THEN st
    ELSE SkAddSourceEpisodes(SkAddSourceEpisode(st, id, Head(episode_ids)), id,
                             Tail(episode_ids))

\* record_usage: the weight of the new use
RecordUsageWeightHalved(usage_count) == Rat(1, 2 * usage_count)
RecordUsageWeight(usage_count) == Rat(1, usage_count)

\* record_usage: the running average
RecordUsageRate(current_rate, usage_count, success) ==
    LET new_success == IF success THEN One ELSE Zero
        weight == RecordUsageWeight(usage_count)
    IN RatAdd(RatMul(current_rate, RatSub(One, weight)), RatMul(new_success, weight))

\* record_usage of a known id: count and rate are written to the payload
\* before its metadata is touched, the collection and the file after
SkRecordUsage(st, id, success) ==
    LET i == CachePos(st.sk, id)
        usage_count == st.sk[i].usage_count + 1
        s1 == [st EXCEPT !.sk[i].usage_count = usage_count,
                         !.sk[i].success_rate = RecordUsageRate(@, usage_count, success),
                         !.sk[i].hist_failures = IF success THEN @ ELSE @ + 1]
    IN IF st.sk[i].metadata # "dict" THEN [s1 EXCEPT !.raised = TRUE] ELSE SkSave(s1)

\* find_applicable_skills' score of one skill
SkScore(skill, distance) ==
    [similarity |-> RatSub(One, Tenths(distance)),
     importance |-> skill.success_rate,
     recency |-> RecencyScore(mem_epoch - skill.created_at),
     access_frequency |-> RatMin(Rat(skill.usage_count, 100), One)]

\* find_applicable_skills' loop over the ranked candidates
RECURSIVE SkFindEach(_, _, _, _, _)
SkFindEach(st, order, min_success_rate, distance, scored) ==
    IF order = <<>> THEN [st |-> st, scored |-> scored]
    ELSE IF Head(order) \notin CacheIds(st.sk)
    THEN SkFindEach(st, Tail(order), min_success_rate, distance, scored)
    ELSE LET i == CachePos(st.sk, Head(order))
             s1 == [st EXCEPT !.sk[i] = SkFromDictInPlace(@)]
         IN IF ~RatLeq(Tenths(min_success_rate), st.sk[i].success_rate)
            THEN SkFindEach(s1, Tail(order), min_success_rate, distance, scored)
            ELSE SkFindEach(s1, Tail(order), min_success_rate, distance,
                            Append(scored, [id |-> Head(order),
                                            score |-> SkScore(st.sk[i], distance)]))

(***************************************************************************)
(* Consolidator: memory_consolidator.py                                    *)
(***************************************************************************)
\* MEMORY_CONFIG and the limits the consolidator passes
ConsolidationThreshold == 10
MinSkillOccurrences == 3
SuccessfulLimit == 100
RecentLimit == 1000
\* the confidence of a "mentioned_in" triple, in tenths
MentionConfidence == 9

\* _group_by_pattern's key: the first three tokens of the action, lower case
ActionKey(action) ==
    IF action = <<>> THEN <<"unknown">>
    ELSE [i \in 1..Min(3, Len(action)) |-> Lower(action[i])]

SkillName(pattern_key) == <<"skill">> \o pattern_key

\* _group_by_pattern: the groups in the order their keys first appear
RECURSIVE GroupByPattern(_, _)
GroupByPattern(episodes, groups) ==
    IF episodes = <<>> THEN groups
    ELSE LET e == Head(episodes)
             key == ActionKey(e.action)
             at == {i \in DOMAIN groups : groups[i].key = key}
         IN GroupByPattern(Tail(episodes),
                IF at = {} THEN Append(groups, [key |-> key, episodes |-> <<e>>])
                ELSE [groups EXCEPT ![CHOOSE i \in at : TRUE].episodes = Append(@, e)])

\* _find_common_pattern: the words of the first text that every text has
FindCommonPattern(texts) ==
    LET common == {w \in {Lower(texts[1][k]) : k \in DOMAIN texts[1]} :
                      \A t \in DOMAIN texts : \E k \in DOMAIN texts[t] : Lower(texts[t][k]) = w}
        pattern == SelectSeq(texts[1], LAMBDA w : Lower(w) \in common)
    IN IF pattern # <<>> THEN pattern ELSE texts[1]

RECURSIVE SumValence(_)
SumValence(episodes) ==
    IF episodes = <<>> THEN 0
    ELSE Head(episodes).emotional_valence + SumValence(Tail(episodes))

\* "if len(word) > 3": the words of the contexts that are too short
ShortWords == {"cli", "db", "ssh"}

\* the number of occurrences of word in the contexts
RECURSIVE WordFreq(_, _)
WordFreq(contexts, word) ==
    IF contexts = <<>> THEN 0
    ELSE Len(SelectSeq(Head(contexts), LAMBDA w : Lower(w) = word))
            + WordFreq(Tail(contexts), word)

\* the keys of word_freq in the order they were inserted
RECURSIVE FirstOccurrences(_, _)
FirstOccurrences(words, seen) ==
    IF words = <<>> THEN seen
    ELSE FirstOccurrences(Tail(words),
            IF Lower(Head(words)) \in ShortWords
               \/ \E k \in DOMAIN seen : seen[k] = Lower(Head(words))
            THEN seen ELSE Append(seen, Lower(Head(words))))

RECURSIVE Concat(_)
Concat(lists) == IF lists = <<>> THEN <<>> ELSE Head(lists) \o Concat(Tail(lists))

\* _extract_trigger_conditions: the long words counted in at least half of
\* the contexts, five at most
ExtractTriggerConditions(contexts) ==
    LET common_keywords ==
            SelectSeq(FirstOccurrences(Concat(contexts), <<>>),
                      LAMBDA w : 2 * WordFreq(contexts, w) >= Len(contexts))
    IN SubSeq(common_keywords, 1, Min(5, Len(common_keywords)))

EpisodeIds(episodes) == [i \in DOMAIN episodes |-> episodes[i].id]

\* get_skill_by_name(skill_name) found the payload at place `at` (0: None):
\* Skill.from_dict has worked on it
SkGetSkillByName(st, at) ==
    IF at = 0 THEN st ELSE [st EXCEPT !.sk[at] = SkFromDictInPlace(@)]

\* _consolidate_pattern_to_skill after get_skill_by_name: the stores after it
\* and its result dict
PatternToSkillAt(st, at, skill_name, common_action, trigger_conditions, avg_valence, episode_ids, dry_run) ==
    IF dry_run
    THEN [st |-> st, created |-> at = 0, updated |-> at # 0, has_id |-> at # 0,
          skill_id |-> IF at # 0 THEN st.sk[at].id ELSE <<>>]
    ELSE IF at # 0
    THEN [st |-> SkAddSourceEpisodes(SkUpdateSkill(st, st.sk[at].id, common_action,
                                                   trigger_conditions),
                                     st.sk[at].id, episode_ids),
          created |-> FALSE, updated |-> TRUE, has_id |-> TRUE, skill_id |-> st.sk[at].id]
    ELSE [st |-> SkStore(st, SkillToDict(skill_name, common_action, trigger_conditions,
                                         avg_valence, episode_ids, mem_epoch)),
          created |-> TRUE, updated |-> FALSE, has_id |-> TRUE,
          skill_id |-> SkillGenerateId(skill_name, common_action)]

\* _consolidate_pattern_to_skill
ConsolidatePatternToSkill(st, pattern_key, episodes, dry_run) ==
    PatternToSkillAt(SkGetSkillByName(st, SkPosByName(st.sk, SkillName(pattern_key))),
                     SkPosByName(st.sk, SkillName(pattern_key)),
                     SkillName(pattern_key),
                     FindCommonPattern([i \in DOMAIN episodes |-> episodes[i].action]),
                     ExtractTriggerConditions([i \in DOMAIN episodes |-> episodes[i].context]),
                     Rat(SumValence(episodes), 10 * Len(episodes)),
                     EpisodeIds(episodes), dry_run)

\* step 3 of consolidate for one group: the counter of the result, then
\* mark_consolidated outside a dry run
CountSkill(r) ==
    IF r.created THEN [r.st EXCEPT !.res.skills_created = @ + 1]
    ELSE [r.st EXCEPT !.res.skills_updated = @ + 1]

AfterPatternToSkill(r, episode_ids, dry_run) ==
    IF r.st.raised THEN r.st
    ELSE IF ~dry_run /\ r.has_id THEN EpMarkConsolidated(CountSkill(r), episode_ids, r.skill_id)
    ELSE CountSkill(r)

\* step 3 of consolidate: every group with enough episodes becomes a skill
\* and, outside a dry run, its episodes are marked
RECURSIVE ConsolidateGroups(_, _, _)
ConsolidateGroups(st, groups, dry_run) ==
    IF groups = <<>> \/ st.raised THEN st
    ELSE IF Len(Head(groups).episodes) < MinSkillOccurrences
    THEN ConsolidateGroups(st, Tail(groups), dry_run)
    ELSE ConsolidateGroups(
             AfterPatternToSkill(
                 ConsolidatePatternToSkill(st, Head(groups).key, Head(groups).episodes, dry_run),
                 EpisodeIds(Head(groups).episodes), dry_run),
             Tail(groups), dry_run)

\* the stores after add_triple answered k
AfterMention(st, k) ==
    IF k.result = Raised THEN [st EXCEPT !.kg = k, !.raised = TRUE]
    ELSE [st EXCEPT !.kg = k, !.res.triples_extracted = @ + 1]

\* the triple _find_existing_triple returns: with several matches, one of them
FirstFound(found) == IF found = {} THEN Raised ELSE CHOOSE id \in found : TRUE

\* _extract_knowledge_from_episode: a "mentioned_in" triple per entity
RECURSIVE KnowledgeFromEntities(_, _, _)
KnowledgeFromEntities(st, episode, entities) ==
    IF entities = <<>> \/ st.raised THEN st
    ELSE KnowledgeFromEntities(
             AfterMention(st,
                 KGAddTripleResult(st.kg, Head(entities), MentionedIn, EpisodeRefs[episode.id],
                     MentionConfidence, episode.id,
                     FirstFound(KGFindExisting(st.kg.graph, st.kg.index, Head(entities),
                                               MentionedIn, EpisodeRefs[episode.id])))),
             episode, Tail(entities))

\* step 4 of consolidate
RECURSIVE ExtractKnowledge(_, _)
ExtractKnowledge(st, episodes) ==
    IF episodes = <<>> \/ st.raised THEN st
    ELSE ExtractKnowledge(KnowledgeFromEntities(st, Head(episodes), Head(episodes).entities),
                          Tail(episodes))

\* the counter of the result after archive_episode returned
CountArchived(a) == IF a.raised THEN a ELSE [a EXCEPT !.res.episodes_archived = @ + 1]

RECURSIVE ArchiveEach(_, _)
ArchiveEach(st, episodes) ==
    IF episodes = <<>> \/ st.raised THEN st
    ELSE IF Head(episodes).status = "CONSOLIDATED" /\ Head(episodes).timestamp < mem_epoch
    THEN ArchiveEach(CountArchived(EpArchive(st, Head(episodes).id)), Tail(episodes))
    ELSE ArchiveEach(st, Tail(episodes))

\* _archive_old_consolidated: get_recent_episodes, then archive_episode on
\* the consolidated episodes older than the retention window
ArchiveOldConsolidated(st) ==
    LET r == EpFromDictAll(st.ep)
    IN IF r.raised THEN [st EXCEPT !.ep = r.cache, !.raised = TRUE]
       ELSE ArchiveEach([st EXCEPT !.ep = r.cache], EpRecent(st.ep, RecentLimit))

\* _log_consolidation
LogConsolidation(st) == [st EXCEPT !.log = Append(@, st.res)]

\* steps 4 to 6 of consolidate, each on the stores the step before left
ConsolidateStep4(st, successful, dry_run) ==
    IF dry_run \/ st.raised THEN st ELSE ExtractKnowledge(st, successful)

ConsolidateStep5(st, dry_run) ==
    IF dry_run \/ st.raised THEN st ELSE ArchiveOldConsolidated(st)

ConsolidateStep6(st) == IF st.raised THEN st ELSE LogConsolidation(st)

\* consolidate once get_successful_episodes has returned
ConsolidateFrom(st, successful, threshold, dry_run) ==
    IF Len(successful) < threshold THEN st
    ELSE ConsolidateStep6(ConsolidateStep5(ConsolidateStep4(
             ConsolidateGroups([st EXCEPT !.res.episodes_processed = Len(successful)],
                               GroupByPattern(successful, <<>>), dry_run),
             successful, dry_run), dry_run))

\* consolidate; min_episodes 0 stands for None (and, being falsy, does as None)
ConsolidateResult(st, min_episodes, min_valence, dry_run) ==
    LET r == EpFromDictAll(st.ep)
    IN IF r.raised THEN [st EXCEPT !.ep = r.cache, !.raised = TRUE]
       ELSE ConsolidateFrom([st EXCEPT !.ep = r.cache],
                            EpSuccessful(st.ep, min_valence, SuccessfulLimit),
                            IF min_episodes # 0 THEN min_episodes ELSE ConsolidationThreshold,
                            dry_run)

(***************************************************************************)
(* Calls on the stores and on the consolidator.                            *)
(***************************************************************************)
\* the arguments callers pass
MinEpisodesArgs == {0, 3}
MinValences == {3, -10}
MinImportances == {0, 8}
MinSuccessRates == {0, 5}
\* n_results of recall and of find_applicable_skills
RecallResults == 5
NResultsArgs == {1, RecallResults}
SkillResults == 3
\* the skill a direct mark_consolidated names
MarkedSkillId == SkillGenerateId(<<"skill", "manual">>, <<"manual">>)
\* the skills callers create themselves: name, pattern, initial success rate
\* in tenths (0.0 is create_skill's default, -0.5 a mean valence the
\* consolidator can pass)
SkillNames == {<<"test_skill">>, <<"greet">>}
SkillPattern == <<"commande", "test">>
SkillTriggers == <<"test", "commande">>
SkillRates == {0, -5}
\* the rates given to the skills whose retrieval is looked at
ScoreSkillRates == {0, 8}

\* the stores after a call, and what the call reported
MemApply(r, ret) ==
    /\ ep_cache' = r.ep
    /\ ep_disk' = r.epd
    /\ ep_chroma' = r.epc
    /\ sk_cache' = r.sk
    /\ sk_disk' = r.skd
    /\ sk_chroma' = r.skc
    /\ kg_graph' = r.kg.graph
    /\ kg_disk' = r.kg.disk
    /\ kg_index' = r.kg.index
    /\ kg_chroma' = r.kg.chroma
    /\ kg_hist' = IF r.kg.chroma = kg_chroma /\ r.kg.graph = kg_graph THEN kg_hist ELSE <<>>
    /\ cons_log' = r.log
    /\ mem_ret' = ret
    /\ UNCHANGED mem_epoch
    /\ UNCHANGED <<tgvars, extvars>>

RecordInteractionUpTo(max_episodes, x) ==
    /\ Cardinality(DOMAIN ep_chroma) < max_episodes
    /\ LET id == Cardinality(DOMAIN ep_chroma) + 1
           r == EpStore(MemStores, EpisodeToDict(id, mem_epoch, x))
       IN MemApply(r, [op |-> "record_interaction", raised |-> r.raised, result |-> id])

RecordInteraction(x) == RecordInteractionUpTo(MaxEpisodes, x)

MarkConsolidated(id) ==
    /\ id \in CacheIds(ep_cache)
    /\ Len(ep_cache[CachePos(ep_cache, id)].consolidated_into) < MaxMarks
    /\ LET r == EpMarkConsolidated(MemStores, <<id>>, MarkedSkillId)
       IN MemApply(r, [op |-> "mark_consolidated", raised |-> r.raised, result |-> id])

ArchiveEpisode(id) ==
    /\ id \in CacheIds(ep_cache)
    /\ LET r == EpArchive(MemStores, id)
       IN MemApply(r, [op |-> "archive_episode", raised |-> r.raised, result |-> id])

GetEpisode(id) ==
    /\ id \in CacheIds(ep_cache)
    /\ LET r == EpGetEpisode(MemStores, id)
       IN MemApply(r, [op |-> "get_episode", raised |-> r.raised, result |-> id])

\* the candidates the query fetches: the first 2 * n_results of the ranking
RecallFetched(order, n_results) == SubSeq(order, 1, Min(2 * n_results, Len(order)))

\* what recall returns of the scored candidates: sorted, the first n_results
RecallReturned(scored, n_results) ==
    SubSeq(SortByScore(scored, <<>>), 1, Min(n_results, Len(scored)))

\* recall: the query ranks the entries the status filter lets through
Recall(order, n_results, min_importance, distance) ==
    LET r == EpRecallEach(MemStores, RecallFetched(order, n_results), min_importance,
                          distance, <<>>)
    IN MemApply(r.st, [op |-> "recall", raised |-> r.st.raised,
                       result |-> RecallReturned(r.scored, n_results),
                       n_results |-> n_results, min_importance |-> min_importance])

Consolidate(min_episodes, min_valence, dry_run) ==
    /\ Len(cons_log) < MaxLogs
    /\ LET r == ConsolidateResult(MemStores, min_episodes, min_valence, dry_run)
       IN MemApply(r, [op |-> "consolidate", raised |-> r.raised, result |-> r.res,
                       min_episodes |-> min_episodes, min_valence |-> min_valence,
                       dry_run |-> dry_run])

CreateSkill(name, success_rate) ==
    /\ Cardinality(sk_chroma \cup {SkillGenerateId(name, SkillPattern)}) <= MaxSkills
    /\ LET r == SkStore(MemStores, SkillToDict(name, SkillPattern, SkillTriggers, Tenths(success_rate),
                                               <<>>, mem_epoch))
       IN MemApply(r, [op |-> "create_skill", raised |-> r.raised,
                       result |-> SkillGenerateId(name, SkillPattern)])

FindApplicableSkills(order, min_success_rate, distance) ==
    LET r == SkFindEach(MemStores, order, min_success_rate, distance, <<>>)
        sorted == SortByScore(r.scored, <<>>)
    IN MemApply(r.st, [op |-> "find_applicable_skills", raised |-> r.st.raised,
                       result |-> SubSeq(sorted, 1, Min(SkillResults, Len(sorted)))])

GetSkill(id) ==
    /\ id \in CacheIds(sk_cache)
    /\ LET i == CachePos(sk_cache, id)
       IN MemApply([MemStores EXCEPT !.sk[i] = SkFromDictInPlace(@)],
                   [op |-> "get_skill", raised |-> FALSE, result |-> id])

\* record_usage: False for an id the cache does not hold, True at the end
RecordUsage(id, success) ==
    /\ id \in CacheIds(sk_cache) => sk_cache[CachePos(sk_cache, id)].usage_count < MaxUsage
    /\ LET r == IF id \in CacheIds(sk_cache) THEN SkRecordUsage(MemStores, id, success)
                ELSE MemStores
       IN MemApply(r, [op |-> "record_usage", raised |-> r.raised, result |-> id,
                       returned |-> id \in CacheIds(sk_cache) /\ ~r.raised])

\* a retention window (30 days) goes by
PassRetentionWindow ==
    /\ mem_epoch < MaxEpochs
    /\ mem_epoch' = mem_epoch + 1
    /\ mem_ret' = [op |-> "none", raised |-> FALSE, result |-> 0]
    /\ UNCHANGED <<ep_cache, ep_disk, ep_chroma, sk_cache, sk_disk, sk_chroma, cons_log>>
    /\ UNCHANGED <<tgvars, kgvars, extvars>>

\* a new process: the three stores load their files (json.loads gives every
\* metadata back as a dict), the graph rebuilds its indexes
MemRestart ==
    /\ ep_cache' = ep_disk
    /\ sk_cache' = sk_disk
    /\ kg_graph' = kg_disk
    /\ kg_index' = KGRebuildIndices(kg_disk)
    /\ kg_hist' = <<>>
    /\ mem_ret' = [op |-> "restart", raised |-> FALSE, result |-> 0]
    /\ UNCHANGED <<ep_disk, ep_chroma, sk_disk, sk_chroma, cons_log, mem_epoch>>
    /\ UNCHANGED <<kg_disk, kg_chroma>>
    /\ UNCHANGED <<tgvars, extvars>>

\* the interactions recorded where only retrieval is looked at
ScoreInteractions ==
    {[context |-> <<"terminal">>, action |-> <<"backup", "db">>,
      valence |-> 6, entities |-> <<>>]}

MemInit ==
    /\ ep_cache = <<>>
    /\ ep_disk = <<>>
    /\ ep_chroma = <<>>
    /\ sk_cache = <<>>
    /\ sk_disk = <<>>
    /\ sk_chroma = {}
    /\ cons_log = <<>>
    /\ mem_epoch = 0
    /\ mem_ret = [op |-> "none", raised |-> FALSE, result |-> 0]

\* the ids recall's query ranks: include_archived is False
RecallCandidates == {id \in DOMAIN ep_chroma : ep_chroma[id] # "ARCHIVED"}

\* the consolidator over the episodes callers record and the skills it makes
MemNext ==
    \/ \E x \in MemInteractions : RecordInteraction(x)
    \/ \E id \in CacheIds(ep_cache) : MarkConsolidated(id)
    \/ \E min_episodes \in MinEpisodesArgs, min_valence \in MinValences,
          dry_run \in BOOLEAN : Consolidate(min_episodes, min_valence, dry_run)
    \/ \E id \in CacheIds(sk_cache), success \in BOOLEAN : RecordUsage(id, success)
    \/ MemRestart

\* the procedural store on its own
ProcNext ==
    \/ \E name \in SkillNames, success_rate \in SkillRates : CreateSkill(name, success_rate)
    \/ \E id \in CacheIds(sk_cache) : GetSkill(id)
    \/ \E id \in CacheIds(sk_cache), success \in BOOLEAN : RecordUsage(id, success)
    \/ MemRestart

\* retrieval from both stores
ScoreNext ==
    \/ \E x \in ScoreInteractions : RecordInteraction(x)
    \/ \E order \in Orders(RecallCandidates), n_results \in NResultsArgs,
          min_importance \in MinImportances, distance \in Distances :
          Recall(order, n_results, min_importance, distance)
    \/ \E success_rate \in ScoreSkillRates : CreateSkill(<<"test_skill">>, success_rate)
    \/ \E order \in Orders(sk_chroma), min_success_rate \in MinSuccessRates,
          distance \in Distances :
          FindApplicableSkills(order, min_success_rate, distance)
    \/ \E id \in CacheIds(sk_cache), success \in BOOLEAN : RecordUsage(id, success)
    \/ PassRetentionWindow
    \/ MemRestart

(***************************************************************************)
(* Another process writing to the procedural store while the consolidator  *)
(* runs.  Every process has a ProceduralMemory of its own, with its own    *)
(* _skills_cache loaded from skills.json when it was built; the file and   *)
(* the collection are shared.                                              *)
(***************************************************************************)
\* the skill the other process creates
ExternalSkillName == <<"greet">>

ExternalSkillId == SkillGenerateId(ExternalSkillName, SkillPattern)

\* create_skill in the other process, built just before: its cache is the
\* file's content, it puts the skill and saves
ExternalCreateSkill(st) ==
    [st EXCEPT !.skc = @ \cup {ExternalSkillId},
               !.skd = CachePut(@, SkillToDict(ExternalSkillName, SkillPattern, SkillTriggers,
                                               Zero, <<>>,
                                               mem_epoch))]

\* consolidate, the other process's create_skill falling between step 1
\* (get_successful_episodes) and step 2
ConsolidateDuringWriteResult(st, min_episodes, min_valence) ==
    LET r == EpFromDictAll(st.ep)
    IN IF r.raised THEN [st EXCEPT !.ep = r.cache, !.raised = TRUE]
       ELSE ConsolidateFrom(ExternalCreateSkill([st EXCEPT !.ep = r.cache]),
                            EpSuccessful(st.ep, min_valence, SuccessfulLimit),
                            IF min_episodes # 0 THEN min_episodes ELSE ConsolidationThreshold,
                            FALSE)

ConsolidateDuringWrite(min_episodes, min_valence) ==
    /\ Len(cons_log) < MaxLogs
    /\ ExternalSkillId \notin sk_chroma
    /\ MemApply(ConsolidateDuringWriteResult(MemStores, min_episodes, min_valence),
                [op |-> "consolidate_during_write",
                 raised |-> ConsolidateDuringWriteResult(MemStores, min_episodes,
                                                         min_valence).raised,
                 result |-> ExternalSkillId])

\* the consolidator's process and the process that writes beside it
ConcNext ==
    \/ \E x \in MemInteractions : RecordInteraction(x)
    \/ \E min_episodes \in MinEpisodesArgs, min_valence \in MinValences :
          Consolidate(min_episodes, min_valence, FALSE)
    \/ \E min_episodes \in MinEpisodesArgs, min_valence \in MinValences :
          ConsolidateDuringWrite(min_episodes, min_valence)
    \/ MemRestart

(***************************************************************************)
(* The embedding provider: every _get_embedding call (model.encode) either *)
(* answers or raises.                                                      *)
(***************************************************************************)
\* the outcome of a call that stopped at _get_embedding
EmbeddingFailed(st) == [st EXCEPT !.raised = TRUE]

\* EpisodicMemory.store: the embedding is asked for first
EpStoreWith(st, payload, embed_ok) ==
    IF embed_ok THEN EpStore(st, payload) ELSE EmbeddingFailed(st)

\* ProceduralMemory.store, likewise
SkStoreWith(st, payload, embed_ok) ==
    IF embed_ok THEN SkStore(st, payload) ELSE EmbeddingFailed(st)

\* update_skill of a known id: Skill.from_dict on the cached payload, the new
\* pattern when it is not empty, then store
SkUpdateSkillFrom(st, i, pattern, embed_ok) ==
    SkStoreWith(st, [st.sk[i] EXCEPT !.pattern = IF pattern # <<>> THEN pattern ELSE @],
                embed_ok)

SkUpdateSkillWith(st, id, pattern, embed_ok) ==
    SkUpdateSkillFrom([st EXCEPT !.sk[CachePos(st.sk, id)] = SkFromDictInPlace(@)],
                      CachePos(st.sk, id), pattern, embed_ok)

\* add_triple: a triple it finds needs no embedding, a new one asks for it
\* before the collection, the graph and the indexes are touched
KGAddTripleWith(st, s, p, o, c, existing, embed_ok) ==
    IF existing = Raised /\ ~embed_ok THEN [st EXCEPT !.result = Raised]
    ELSE KGAddTripleResult(st, s, p, o, c, NoId, existing)

\* the patterns update_skill is given: None, a new pattern
UpdatePatterns == {<<>>, <<"commande", "v2">>}

EmbRecordInteraction(x, embed_ok) ==
    /\ Cardinality(DOMAIN ep_chroma) < MaxEpisodes
    /\ LET r == EpStoreWith(MemStores,
                            EpisodeToDict(Cardinality(DOMAIN ep_chroma) + 1, mem_epoch, x),
                            embed_ok)
       IN MemApply(r, [op |-> "record_interaction", raised |-> r.raised,
                       embedding_failed |-> ~embed_ok])

EmbCreateSkill(name, embed_ok) ==
    /\ Cardinality(sk_chroma \cup {SkillGenerateId(name, SkillPattern)}) <= MaxSkills
    /\ LET r == SkStoreWith(MemStores,
                            SkillToDict(name, SkillPattern, SkillTriggers, Zero, <<>>, mem_epoch), embed_ok)
       IN MemApply(r, [op |-> "create_skill", raised |-> r.raised,
                       embedding_failed |-> ~embed_ok])

EmbUpdateSkill(id, pattern, embed_ok) ==
    /\ id \in CacheIds(sk_cache)
    /\ LET r == SkUpdateSkillWith(MemStores, id, pattern, embed_ok)
       IN MemApply(r, [op |-> "update_skill", raised |-> r.raised,
                       embedding_failed |-> ~embed_ok])

\* the stores after add_triple answered k
EmbAfterAddTriple(k) == [MemStores EXCEPT !.kg = k, !.raised = (k.result = Raised)]

EmbAddTriple(s, p, o, c, embed_ok) ==
    /\ \/ KGFindExisting(kg_graph, kg_index, s, p, o) # {}
       \/ KGGenerateId(s, p, o) \in DOMAIN kg_graph
       \/ Cardinality(DOMAIN kg_graph) < MaxKGTriples
    /\ \E existing \in IF KGFindExisting(kg_graph, kg_index, s, p, o) = {} THEN {Raised}
                       ELSE KGFindExisting(kg_graph, kg_index, s, p, o) :
          LET r == EmbAfterAddTriple(KGAddTripleWith(KGStores, s, p, o, c, existing, embed_ok))
          IN MemApply(r, [op |-> "add_triple", raised |-> r.raised,
                          embedding_failed |-> (existing = Raised /\ ~embed_ok)])

\* the three stores with a provider that may fail
EmbedNext ==
    \/ \E x \in ScoreInteractions, embed_ok \in BOOLEAN : EmbRecordInteraction(x, embed_ok)
    \/ \E embed_ok \in BOOLEAN : EmbCreateSkill(<<"test_skill">>, embed_ok)
    \/ \E id \in CacheIds(sk_cache), pattern \in UpdatePatterns, embed_ok \in BOOLEAN :
          EmbUpdateSkill(id, pattern, embed_ok)
    \/ \E o \in KGObjects, c \in KGConfidences, embed_ok \in BOOLEAN :
          EmbAddTriple("python", "uses", o, c, embed_ok)
    \/ MemRestart

(***************************************************************************)
(* Scheduler: memory_scheduler.py.  Every invocation (run, force) is a     *)
(* process of its own: it loads memory_state.json when it starts, keeps    *)
(* the content as self.state, and writes self.state back whenever a job    *)
(* ends.  The four tasks differ by name, command and interval only; two    *)
(* of them are kept, with the intervals 24 h and 12 h.                     *)
(***************************************************************************)
\* SCHEDULED_TASKS, in the order of the list
SchedTasks == <<"consolidate_memory", "analyze_patterns">>

SchedTaskNames == {SchedTasks[i] : i \in DOMAIN SchedTasks}

\* interval_hours, in units of 12 hours
IntervalOf(task) == IF task = "consolidate_memory" THEN 2 ELSE 1

\* the invocations that may overlap
SchedProcs == {1, 2}

\* how subprocess.run ends: return code 0, another return code,
\* TimeoutExpired after 300 s (any other exception is handled as the timeout
\* is, with another error text)
JobOutcomes == {"ok", "failed", "timeout"}

\* _load_state when there is no file
SchedEmptyState ==
    [last_run |-> [t \in SchedTaskNames |-> NoTime],
     run_count |-> [t \in SchedTaskNames |-> 0],
     failures |-> [t \in SchedTaskNames |-> <<>>]]

\* an invocation that is not running
SchedNoProc ==
    [pc |-> "none", kind |-> "none", state |-> SchedEmptyState, idx |-> 0,
     task |-> "none", launched |-> [t \in SchedTaskNames |-> 0]]

\* is_due
IsDue(state, task, now) ==
    \/ state.last_run[task] = NoTime
    \/ now >= state.last_run[task] + IntervalOf(task)

\* run_task, return code 0
RunTaskSucceeded(state, task, now) ==
    [state EXCEPT !.last_run[task] = now,
                  !.run_count[task] = @ + 1,
                  !.failures[task] = <<>>]

\* run_task, the three failure branches: only failures[task] is written (the
\* entry's time is left out, its error is the outcome)
RunTaskFailedStamped(state, task, now, outcome) ==
    [state EXCEPT !.failures[task] = <<outcome>>, !.last_run[task] = now]
RunTaskFailed(state, task, now, outcome) ==
    [state EXCEPT !.failures[task] = <<outcome>>]

\* a new invocation takes the first place that is free
SchedFree(p) ==
    /\ sched_started < MaxInvocations
    /\ sched_proc[p].pc = "none"
    /\ \A q \in SchedProcs : q < p => sched_proc[q].pc # "none"

\* main: "run" builds a MemoryScheduler (which loads the file) and enters
\* run_all_due
SchedRun(p) ==
    /\ SchedFree(p)
    /\ sched_proc' = [sched_proc EXCEPT ![p] =
           [SchedNoProc EXCEPT !.pc = "pass", !.kind = "run", !.state = sched_file,
                               !.idx = 1]]
    /\ sched_started' = sched_started + 1
    /\ UNCHANGED <<sched_file, sched_now, sched_ret>>
    /\ UNCHANGED <<tgvars, kgvars, memvars, loadvars, searchvars>>

\* main: "force TASK" loads the file, force_task finds the task and run_task
\* starts its command whether it is due or not
SchedForce(p, task) ==
    /\ SchedFree(p)
    /\ sched_proc' = [sched_proc EXCEPT ![p] =
           [SchedNoProc EXCEPT !.pc = "job", !.kind = "force", !.state = sched_file,
                               !.task = task, !.launched[task] = 1]]
    /\ sched_started' = sched_started + 1
    /\ UNCHANGED <<sched_file, sched_now, sched_ret>>
    /\ UNCHANGED <<tgvars, kgvars, memvars, loadvars, searchvars>>

\* run_all_due, one turn of the loop: a due task's command is started, a
\* task that is not due is passed; after the last task the process ends
RunAllDueStep(p) ==
    /\ sched_proc[p].pc = "pass"
    /\ LET q == sched_proc[p]
       IN sched_proc' = [sched_proc EXCEPT ![p] =
              IF q.idx > Len(SchedTasks) THEN SchedNoProc
              ELSE IF IsDue(q.state, SchedTasks[q.idx], sched_now)
              THEN [q EXCEPT !.pc = "job", !.task = SchedTasks[q.idx],
                             !.launched[SchedTasks[q.idx]] = @ + 1]
              ELSE [q EXCEPT !.idx = @ + 1]]
    /\ UNCHANGED <<sched_file, sched_now, sched_ret, sched_started>>
    /\ UNCHANGED <<tgvars, kgvars, memvars, loadvars, searchvars>>

\* run_task after subprocess.run: self.state is updated and _save_state
\* writes all of it to the file; run_all_due goes on with the next task
JobEnds(p, outcome) ==
    /\ sched_proc[p].pc = "job"
    /\ LET q == sched_proc[p]
           state == IF outcome = "ok" THEN RunTaskSucceeded(q.state, q.task, sched_now)
                    ELSE RunTaskFailed(q.state, q.task, sched_now, outcome)
       IN /\ sched_file' = state
          /\ sched_proc' = [sched_proc EXCEPT ![p] =
                 IF q.kind = "run" THEN [q EXCEPT !.pc = "pass", !.state = state, !.idx = @ + 1]
                 ELSE SchedNoProc]
          /\ sched_ret' = [proc |-> p, outcome |-> outcome]
    /\ UNCHANGED <<sched_now, sched_started>>
    /\ UNCHANGED <<tgvars, kgvars, memvars, loadvars, searchvars>>

\* twelve hours go by
SchedTick ==
    /\ sched_now < MaxSchedTime
    /\ sched_now' = sched_now + 1
    /\ UNCHANGED <<sched_file, sched_proc, sched_ret, sched_started>>
    /\ UNCHANGED <<tgvars, kgvars, memvars, loadvars, searchvars>>

SchedInit ==
    /\ sched_file = SchedEmptyState
    /\ sched_proc = [p \in SchedProcs |-> SchedNoProc]
    /\ sched_now = 0
    /\ sched_ret = [proc |-> 0, outcome |-> "none"]
    /\ sched_started = 0

SchedNext ==
    \/ \E p \in SchedProcs : SchedRun(p)
    \/ \E p \in SchedProcs, task \in SchedTaskNames : SchedForce(p, task)
    \/ \E p \in SchedProcs : RunAllDueStep(p)
    \/ \E p \in SchedProcs, outcome \in JobOutcomes : JobEnds(p, outcome)
    \/ SchedTick

(***************************************************************************)
(* Loading the stores from their files: the side-car files of the         *)
(* episodic, procedural and knowledge stores are one JSON document each,   *)
(* triples.jsonl holds one JSON document per line.                         *)
(***************************************************************************)
MaxFileRecords == 3

LdStores == {"episodic", "procedural", "knowledge", "temporal"}

\* a record as the store wrote it, one whose bytes are no longer JSON, and
\* one that is JSON but lacks a key the store reads
RecordStates == {"ok", "garbled", "malformed"}

LdNoFile == [store |-> "none", records |-> <<>>]

LdNoLoad == [op |-> "none", store |-> "none", records |-> <<>>,
             raised |-> FALSE, held |-> {}]

\* json.loads of a text: succeeds when every record in it is JSON
JsonLoads(records) == \A i \in DOMAIN records : records[i] # "garbled"

\* _load_metadata_cache, _load_skills_cache, _load_graph: the whole file is
\* parsed at once, and any exception gives the empty dict
LoadSideCar(records) ==
    IF JsonLoads(records) THEN DOMAIN records ELSE {}

\* _rebuild_indices reads subject, object and predicate of every entry
LdRebuildIndicesRaises(records, held) ==
    \E i \in held : records[i] = "malformed"

\* TemporalGraph._load: each line is parsed and indexed on its own, a line
\* that raises is passed over
LoadLines(records) == {i \in DOMAIN records : records[i] = "ok"}

\* what the constructor of each store leaves in memory
LoadStore(store, records) ==
    CASE store \in {"episodic", "procedural"} ->
            [raised |-> FALSE, held |-> LoadSideCar(records)]
      [] store = "knowledge" ->
            IF LdRebuildIndicesRaises(records, LoadSideCar(records))
            THEN [raised |-> TRUE, held |-> {}]
            ELSE [raised |-> FALSE, held |-> LoadSideCar(records)]
      [] store = "temporal" ->
            [raised |-> FALSE, held |-> LoadLines(records)]

\* a save of the store adds a record to its file
LdWrite(store) ==
    /\ ld_file = LdNoFile \/ ld_file.store = store
    /\ Len(ld_file.records) < MaxFileRecords
    /\ ld_file' = [store |-> store, records |-> Append(ld_file.records, "ok")]
    /\ UNCHANGED ld_ret
    /\ UNCHANGED <<tgvars, kgvars, memvars, schedvars, searchvars>>

\* the file is damaged between two runs of the program
LdDamage(i, kind) ==
    /\ i \in DOMAIN ld_file.records
    /\ ld_file.records[i] = "ok"
    /\ ld_file' = [ld_file EXCEPT !.records[i] = kind]
    /\ UNCHANGED ld_ret
    /\ UNCHANGED <<tgvars, kgvars, memvars, schedvars, searchvars>>

\* the program starts: the store is constructed over its file
LdLoad ==
    /\ ld_file # LdNoFile
    /\ LET r == LoadStore(ld_file.store, ld_file.records)
       IN ld_ret' = [op |-> "load", store |-> ld_file.store,
                     records |-> ld_file.records,
                     raised |-> r.raised, held |-> r.held]
    /\ UNCHANGED ld_file
    /\ UNCHANGED <<tgvars, kgvars, memvars, schedvars, searchvars>>

LoadInit ==
    /\ ld_file = LdNoFile
    /\ ld_ret = LdNoLoad

LoadNext ==
    \/ \E store \in LdStores : LdWrite(store)
    \/ \E i \in 1..MaxFileRecords, kind \in RecordStates \ {"ok"} : LdDamage(i, kind)
    \/ LdLoad

(***************************************************************************)
(* Lexical ranking: class BM25 of hybrid_search.py.  A text is a sequence  *)
(* of words; scores are exact fractions, idf values are given to the       *)
(* hundredth.                                                              *)
(***************************************************************************)
MaxDocs == 2

BM25K1 == <<3, 2>>

BM25B == <<3, 4>>

RatDiv(x, y) == Rat(x[1] * y[2], x[2] * y[1])

\* a / b <= c / d for fractions that are not negative, by their integer
\* parts and then the inverses of their remainders
RECURSIVE FracLeq(_, _, _, _)
FracLeq(a, b, c, d) ==
    IF a \div b # c \div d THEN a \div b < c \div d
    ELSE IF a % b = 0 THEN TRUE
    ELSE IF c % d = 0 THEN FALSE
    ELSE FracLeq(d, c % d, b, a % b)

ScoreLeq(x, y) == FracLeq(x[1], x[2], y[1], y[2])

\* the contents and the queries of the demonstration, as words
BmContents == {<<"Python">>, <<"Python", "-", "python", "aura">>,
               <<"linux", "aura", "linux">>, <<"-">>}

BmQueries == {<<"python">>, <<"Python", "linux">>, <<"linux", "linux">>, <<"deploy">>}

BmDocIds == <<"doc1", "doc2", "doc3">>

\* re.findall of words made of letters and digits
IsWord(word) == word # "-"

\* tokenize: lower case, then the words
Tokenize(text) ==
    LET lowered == [i \in DOMAIN text |-> Lower(text[i])]
    IN SelectSeq(lowered, IsWord)

\* Counter(doc_tokens)[term]
TermFreq(tokens, term) == Cardinality({i \in DOMAIN tokens : tokens[i] = term})

TokenSet(tokens) == {tokens[i] : i \in DOMAIN tokens}

RECURSIVE SumLengths(_)
SumLengths(lengths) ==
    IF lengths = <<>> THEN 0 ELSE Head(lengths) + SumLengths(Tail(lengths))

\* math.log((n - df + 0.5) / (df + 0.5) + 1), in hundredths, for n up to 4
IdfTable == << <<29>>,
               <<69, 18>>,
               <<98, 47, 13>>,
               <<120, 69, 36, 11>> >>

IdfOf(n, df_val) == Rat(IdfTable[n][df_val], 100)

BM25Empty == [corpus |-> <<>>, doc_lengths |-> <<>>, avgdl |-> <<0, 1>>,
              df |-> <<>>, idf |-> <<>>, doc_ids |-> <<>>, doc_contents |-> <<>>]

\* self.df after the loop of fit: in how many documents each token occurs
DocFrequency(corpus) ==
    LET seen == UNION {TokenSet(corpus[i]) : i \in DOMAIN corpus}
    IN [t \in seen |-> Cardinality({i \in DOMAIN corpus : t \in TokenSet(corpus[i])})]

\* fit: everything is rebuilt from the documents but self.idf, which keeps
\* the entries of terms that left the corpus, and self.avgdl, which is kept
\* when there is no document
BM25Fit(index, documents) ==
    LET corpus == [i \in DOMAIN documents |-> Tokenize(documents[i][2])]
        doc_lengths == [i \in DOMAIN documents |-> Len(corpus[i])]
        df == DocFrequency(corpus)
        n == Len(corpus)
    IN [corpus |-> corpus,
        doc_lengths |-> doc_lengths,
        avgdl |-> IF doc_lengths # <<>> THEN Rat(SumLengths(doc_lengths), n)
                  ELSE index.avgdl,
        df |-> df,
        idf |-> [t \in DOMAIN index.idf \cup DOMAIN df |->
                    IF t \in DOMAIN df THEN IdfOf(n, df[t]) ELSE index.idf[t]],
        doc_ids |-> [i \in DOMAIN documents |-> documents[i][1]],
        doc_contents |-> [i \in DOMAIN documents |-> documents[i][2]]]

\* self.idf.get(term, 0.0)
IdfGet(index, term) ==
    IF term \in DOMAIN index.idf THEN index.idf[term] ELSE <<0, 1>>

\* the term of the sum with the frequency left out of the numerator
BM25TermFlat(index, term_freq, idf, doc_len) ==
    LET numerator == RatAdd(BM25K1, <<1, 1>>)
        denominator ==
            RatAdd(<<term_freq, 1>>,
                   RatMul(BM25K1,
                          RatAdd(RatSub(<<1, 1>>, BM25B),
                                 RatDiv(RatMul(BM25B, <<doc_len, 1>>), index.avgdl))))
    IN RatMul(idf, RatDiv(numerator, denominator))

\* idf * (numerator / denominator) of score; a term the document holds makes
\* doc_len and so avgdl positive
BM25Term(index, term_freq, idf, doc_len) ==
    LET numerator == RatMul(<<term_freq, 1>>, RatAdd(BM25K1, <<1, 1>>))
        denominator ==
            RatAdd(<<term_freq, 1>>,
                   RatMul(BM25K1,
                          RatAdd(RatSub(<<1, 1>>, BM25B),
                                 RatDiv(RatMul(BM25B, <<doc_len, 1>>), index.avgdl))))
    IN RatMul(idf, RatDiv(numerator, denominator))

\* the loop of score over the query tokens, in order
RECURSIVE BM25ScoreFrom(_, _, _, _)
BM25ScoreFrom(index, query_tokens, doc_idx, score) ==
    IF query_tokens = <<>> THEN score
    ELSE LET term == Head(query_tokens)
             term_freq == TermFreq(index.corpus[doc_idx], term)
         IN BM25ScoreFrom(index, Tail(query_tokens), doc_idx,
                IF term_freq = 0 THEN score
                ELSE RatAdd(score, BM25Term(index, term_freq, IdfGet(index, term),
                                            index.doc_lengths[doc_idx])))

BM25Score(index, query, doc_idx) ==
    BM25ScoreFrom(index, Tokenize(query), doc_idx, <<0, 1>>)

\* the lists of documents fit is called with
RECURSIVE BmDocumentLists(_)
BmDocumentLists(n) ==
    IF n = 0 THEN {<<>>}
    ELSE LET shorter == BmDocumentLists(n - 1)
         IN shorter \cup {Append(d, <<BmDocIds[Len(d) + 1], c>>) :
                              d \in {x \in shorter : Len(x) = n - 1}, c \in BmContents}

BmFit(documents) ==
    /\ bm_index' = BM25Fit(bm_index, documents)
    /\ bm_ret' = [op |-> "fit"]
    /\ UNCHANGED <<hs_documents, hs_ret, hs_file>>
    /\ UNCHANGED <<tgvars, kgvars, memvars, schedvars, loadvars>>

BmScore(query, doc_idx) ==
    /\ doc_idx \in DOMAIN bm_index.corpus
    /\ bm_ret' = [op |-> "score", query |-> query, doc_idx |-> doc_idx,
                  result |-> BM25Score(bm_index, query, doc_idx)]
    /\ UNCHANGED <<bm_index, hs_documents, hs_ret, hs_file>>
    /\ UNCHANGED <<tgvars, kgvars, memvars, schedvars, loadvars>>

\* "if not path.exists()": save_state has not written the file
HsNoFile == <<"no file">>

SearchInit ==
    /\ bm_index = BM25Empty
    /\ bm_ret = [op |-> "none"]
    /\ hs_documents = <<>>
    /\ hs_ret = [op |-> "none"]
    /\ hs_file = HsNoFile

BM25Next ==
    \/ \E documents \in BmDocumentLists(MaxDocs) : BmFit(documents)
    \/ \E query \in BmQueries, doc_idx \in 1..MaxDocs : BmScore(query, doc_idx)

(***************************************************************************)
(* Fusion of the lexical and the vector ranking: HybridSearchEngine.       *)
(***************************************************************************)
BM25Weight == <<2, 5>>

VectorWeight == <<3, 5>>

HsQueries == {<<"Python", "linux">>, <<"deploy">>}

TopKs == {1, 2}

MinScores == {<<0, 1>>, <<1, 2>>}

\* cosine distances the collection may report, between 0 and 2
VectorDistances == {<<1, 4>>, <<3, 2>>}

\* the contents indexed for the hybrid search
HsContents == {<<"Python">>, <<"linux", "aura", "linux">>}

HsDocumentLists ==
    {d \in BmDocumentLists(MaxDocs) :
        d # <<>> /\ \A i \in DOMAIN d : d[i][2] \in HsContents}

HsIds(documents) == {documents[i][1] : i \in DOMAIN documents}

\* self.documents[doc_id] = content: a known id keeps its place
HsPut(documents, doc) ==
    IF doc[1] \in HsIds(documents)
    THEN [i \in DOMAIN documents |->
             IF documents[i][1] = doc[1] THEN doc ELSE documents[i]]
    ELSE Append(documents, doc)

RECURSIVE HsPutAll(_, _)
HsPutAll(documents, batch) ==
    IF batch = <<>> THEN documents
    ELSE HsPutAll(HsPut(documents, Head(batch)), Tail(batch))

\* scores.sort(key=..., reverse=True): stable, highest first
RECURSIVE InsertByRank(_, _)
InsertByRank(sorted, e) ==
    IF sorted = <<>> THEN <<e>>
    ELSE IF ScoreLeq(e.score, Head(sorted).score)
         THEN <<Head(sorted)>> \o InsertByRank(Tail(sorted), e)
         ELSE <<e>> \o sorted

RECURSIVE SortByRank(_, _)
SortByRank(rest, acc) ==
    IF rest = <<>> THEN acc
    ELSE SortByRank(Tail(rest), InsertByRank(acc, Head(rest)))

Truncate(list, k) == SubSeq(list, 1, Min(k, Len(list)))

\* BM25.search: the documents with a positive score, best first, top_k of them
BM25Search(index, query, top_k) ==
    LET all == [idx \in DOMAIN index.corpus |->
                   [id |-> index.doc_ids[idx], score |-> BM25Score(index, query, idx)]]
        positive(e) == ~ScoreLeq(e.score, <<0, 1>>)
    IN Truncate(SortByRank(SelectSeq(all, positive), <<>>), top_k)

\* {doc_id: score for doc_id, _, score in bm25_results}
ScoresOf(results) ==
    [id \in {results[i].id : i \in DOMAIN results} |->
        results[CHOOSE i \in DOMAIN results : results[i].id = id].score]

\* chroma_collection.query(n_results=...): the nearest documents of the
\* collection; vector_scores[doc_id] = 1 - dist
VectorScores(documents, dist, n_results) ==
    LET all == [i \in DOMAIN documents |->
                   [id |-> documents[i][1],
                    score |-> RatSub(<<1, 1>>, dist[documents[i][1]])]]
    IN ScoresOf(Truncate(SortByRank(all, <<>>), n_results))

\* max(list(scores.values()) if scores else [0])
MaxScore(scores) ==
    IF DOMAIN scores = {} THEN <<0, 1>>
    ELSE LET vals == {scores[id] : id \in DOMAIN scores}
         IN CHOOSE m \in vals : \A v \in vals : ScoreLeq(v, m)

\* scores.get(doc_id, 0) / max if max > 0 else 0
ScaledScore(scores, id, max) ==
    IF ScoreLeq(max, <<0, 1>>) THEN <<0, 1>>
    ELSE IF id \in DOMAIN scores THEN RatDiv(scores[id], max)
    ELSE <<0, 1>>

HsCombined(bm25_s, vector_s) ==
    RatAdd(RatMul(BM25Weight, bm25_s), RatMul(VectorWeight, vector_s))

\* the loop over all_ids, in the order the set gives them
RECURSIVE HsCollect(_, _, _, _, _)
HsCollect(order, bm25_scores, vector_scores, min_score, results) ==
    IF order = <<>> THEN results
    ELSE LET doc_id == Head(order)
             bm25_s == ScaledScore(bm25_scores, doc_id, MaxScore(bm25_scores))
             vector_s == ScaledScore(vector_scores, doc_id, MaxScore(vector_scores))
             combined == HsCombined(bm25_s, vector_s)
         IN HsCollect(Tail(order), bm25_scores, vector_scores, min_score,
                IF ScoreLeq(min_score, combined)
                THEN Append(results, [id |-> doc_id, bm25_score |-> bm25_s,
                                      vector_score |-> vector_s,
                                      combined_score |-> combined])
                ELSE results)

\* results.sort(key=lambda x: x.combined_score, reverse=True)
RECURSIVE InsertByCombined(_, _)
InsertByCombined(sorted, r) ==
    IF sorted = <<>> THEN <<r>>
    ELSE IF ScoreLeq(r.combined_score, Head(sorted).combined_score)
         THEN <<Head(sorted)>> \o InsertByCombined(Tail(sorted), r)
         ELSE <<r>> \o sorted

RECURSIVE SortByCombined(_, _)
SortByCombined(rest, acc) ==
    IF rest = <<>> THEN acc
    ELSE SortByCombined(Tail(rest), InsertByCombined(acc, Head(rest)))

HybridSearch(bm25_scores, vector_scores, order, top_k, min_score) ==
    Truncate(SortByCombined(HsCollect(order, bm25_scores, vector_scores, min_score, <<>>),
                            <<>>),
             top_k)

\* index: the document is stored and sent to the collection, the BM25 index
\* is left as it is
HsIndex(doc_id, content) ==
    /\ Len(hs_documents) < MaxDocs
    /\ doc_id = BmDocIds[Len(hs_documents) + 1]
    /\ hs_documents' = HsPut(hs_documents, <<doc_id, content>>)
    /\ hs_ret' = [op |-> "index"]
    /\ UNCHANGED <<bm_index, bm_ret, hs_file>>
    /\ UNCHANGED <<tgvars, kgvars, memvars, schedvars, loadvars>>

\* index_batch: the documents are stored and sent to the collection, then
\* rebuild_bm25 fits the BM25 index on all the documents
HsIndexBatch(documents) ==
    /\ Len(HsPutAll(hs_documents, documents)) <= MaxDocs
    /\ hs_documents' = HsPutAll(hs_documents, documents)
    /\ bm_index' = BM25Fit(bm_index, hs_documents')
    /\ hs_ret' = [op |-> "index_batch", result |-> Len(documents)]
    /\ UNCHANGED <<bm_ret, hs_file>>
    /\ UNCHANGED <<tgvars, kgvars, memvars, schedvars, loadvars>>

HsSearch(query, top_k, min_score, dist) ==
    LET bm25_scores == ScoresOf(BM25Search(bm_index, query, top_k * 2))
        vector_scores == VectorScores(hs_documents, dist, top_k * 2)
        all_ids == DOMAIN bm25_scores \cup DOMAIN vector_scores
    IN /\ \E order \in Orders(all_ids) :
             hs_ret' = [op |-> "search", query |-> query, top_k |-> top_k,
                        min_score |-> min_score,
                        bm25_scores |-> bm25_scores,
                        vector_scores |-> vector_scores,
                        result |-> HybridSearch(bm25_scores, vector_scores, order,
                                                top_k, min_score)]
       /\ UNCHANGED <<bm_index, bm_ret, hs_documents, hs_file>>
       /\ UNCHANGED <<tgvars, kgvars, memvars, schedvars, loadvars>>

HybridNext ==
    \/ \E i \in 1..MaxDocs, content \in HsContents : HsIndex(BmDocIds[i], content)
    \/ \E documents \in HsDocumentLists : HsIndexBatch(documents)
    \/ \E query \in HsQueries, top_k \in TopKs, min_score \in MinScores,
          dist \in [HsIds(hs_documents) -> VectorDistances] :
              HsSearch(query, top_k, min_score, dist)

\* save_state writes the documents (and the weights) to the file
HsSaveState ==
    /\ hs_file' = hs_documents
    /\ hs_ret' = [op |-> "save_state"]
    /\ UNCHANGED <<bm_index, bm_ret, hs_documents>>
    /\ UNCHANGED <<tgvars, kgvars, memvars, schedvars, loadvars>>

\* load_state: nothing without a file; else the documents are the file's and
\* rebuild_bm25 fits the BM25 index on them
HsLoadState ==
    /\ hs_documents' = IF hs_file = HsNoFile THEN hs_documents ELSE hs_file
    /\ bm_index' = IF hs_file = HsNoFile THEN bm_index ELSE BM25Fit(bm_index, hs_file)
    /\ hs_ret' = [op |-> "load_state"]
    /\ UNCHANGED <<bm_ret, hs_file>>
    /\ UNCHANGED <<tgvars, kgvars, memvars, schedvars, loadvars>>

\* the calls that change the engine's documents
IndexNext ==
    \/ \E i \in 1..MaxDocs, content \in HsContents : HsIndex(BmDocIds[i], content)
    \/ \E documents \in HsDocumentLists : HsIndexBatch(documents)
    \/ HsSaveState
    \/ HsLoadState

(***************************************************************************)
(* The episodic store under the calls that change an episode's status,     *)
(* as time goes by.                                                        *)
(***************************************************************************)
LifeNext ==
    \/ \E x \in ScoreInteractions : RecordInteraction(x)
    \/ \E id \in CacheIds(ep_cache) : MarkConsolidated(id)
    \/ \E id \in CacheIds(ep_cache) : ArchiveEpisode(id)
    \/ \E min_episodes \in {2, 3}, min_valence \in MinValences :
          Consolidate(min_episodes, min_valence, FALSE)
    \/ PassRetentionWindow

(***************************************************************************)
(* record_usage on the skills the store holds and on an id it does not     *)
(* hold.                                                                   *)
(***************************************************************************)
UsageNext ==
    \/ \E name \in SkillNames : CreateSkill(name, 0)
    \/ \E id \in CacheIds(sk_cache) : GetSkill(id)
    \/ \E id \in CacheIds(sk_cache) \cup {MarkedSkillId}, success \in BOOLEAN :
          RecordUsage(id, success)
    \/ MemRestart

(***************************************************************************)
(* KnowledgeGraph.traverse and get_path (knowledge_graph.py:330-418).  Both *)
(* walk the graph through get_relations(entity, "outgoing"), that is        *)
(* through the subject index, and get_relations applies from_dict to every *)
(* payload it returns.  A list of triples is a sequence of their ids.      *)
(***************************************************************************)
TravPredicates == {"uses", MentionedIn}
TravFilters == {<<>>, <<"uses">>}
TravDepths == {1, 2}
\* the subjects and objects of the graphs walked (an object in another case
\* than the subject it names), and the entities a walk starts from
TravSubjects == {"python", "aura"}
TravObjects == {"Python", "aura", "linux"}
TravStarts == {"Python", "aura"}

\* the iteration over a set of ids, in one of its orders
RECURSIVE KGListOf(_)
KGListOf(ids) ==
    IF ids = {} THEN <<>>
    ELSE LET id == CHOOSE x \in ids : TRUE IN <<id>> \o KGListOf(ids \ {id})

\* "if predicates and triple.predicate.lower() not in [...]: continue"
PassesFilter(graph, id, predicates) ==
    \/ predicates = <<>>
    \/ \E i \in DOMAIN predicates : Lower(graph[id].predicate) = Lower(predicates[i])

\* traverse's loop over the relations of one entity
RECURSIVE TraverseRelations(_, _, _, _)
TraverseRelations(graph, relations, predicates, acc) ==
    IF relations = <<>> THEN acc
    ELSE LET id == Head(relations)
             obj_lower == Lower(graph[id].object)
         IN IF ~PassesFilter(graph, id, predicates)
            THEN TraverseRelations(graph, Tail(relations), predicates, acc)
            ELSE TraverseRelations(graph, Tail(relations), predicates,
                    [acc EXCEPT !.listed = Append(@, id),
                                !.visited = @ \cup {obj_lower},
                                !.next_level = IF obj_lower \in acc.visited THEN @
                                               ELSE Append(@, graph[id].object)])

\* traverse's loop over the entities of the current level
RECURSIVE TraverseLevel(_, _, _, _, _)
TraverseLevel(graph, index, current_level, predicates, acc) ==
    IF current_level = <<>> THEN acc
    ELSE LET ids == KGRelationIds(graph, index, Head(current_level), "outgoing")
         IN TraverseLevel(graph, index, Tail(current_level), predicates,
               TraverseRelations(graph, KGListOf(ids), predicates,
                                 [acc EXCEPT !.touched = @ \cup ids]))

\* traverse's loop over the depths: result is the list of the lists
\* depth_1, depth_2, ... that got a triple, touched the payloads that
\* get_relations returned
RECURSIVE TraverseFrom(_, _, _, _, _, _, _, _)
TraverseFrom(graph, index, current_level, predicates, visited, depths_left, result, touched) ==
    IF depths_left = 0 THEN [result |-> result, touched |-> touched]
    ELSE LET acc == TraverseLevel(graph, index, current_level, predicates,
                        [listed |-> <<>>, visited |-> visited, next_level |-> <<>>,
                         touched |-> touched])
             r1 == IF acc.listed = <<>> THEN result ELSE Append(result, acc.listed)
         IN IF acc.next_level = <<>> THEN [result |-> r1, touched |-> acc.touched]
            ELSE TraverseFrom(graph, index, acc.next_level, predicates, acc.visited,
                              depths_left - 1, r1, acc.touched)

Traverse(graph, index, start_entity, max_depth, predicates) ==
    TraverseFrom(graph, index, <<start_entity>>, predicates, {Lower(start_entity)},
                 max_depth, <<>>, {})

\* the payloads after from_dict was applied to the touched ones
KGTouch(graph, touched) ==
    [id \in DOMAIN graph |->
        IF id \in touched THEN KGFromDictInPlace(graph[id]) ELSE graph[id]]

KGTraverse(start_entity, max_depth, predicates) ==
    LET r == Traverse(kg_graph, kg_index, start_entity, max_depth, predicates)
    IN /\ kg_graph' = KGTouch(kg_graph, r.touched)
       /\ kg_hist' = KGHistAppend([op |-> "traverse", start |-> start_entity,
                                   max_depth |-> max_depth, predicates |-> predicates,
                                   result |-> r.result])
       /\ UNCHANGED <<kg_disk, kg_index, kg_chroma>>
       /\ UNCHANGED <<tgvars, memvars, extvars>>

\* get_path's results: None, and a list of triples
NoPath == [found |-> FALSE, path |-> <<>>]
PathOf(path) == [found |-> TRUE, path |-> path]

\* get_path's loop over the relations of the entity taken from the queue:
\* it returns at the first relation that leads to the target
RECURSIVE GetPathRelations(_, _, _, _, _)
GetPathRelations(graph, relations, path, target_lower, acc) ==
    IF relations = <<>> THEN acc
    ELSE LET id == Head(relations)
             obj_lower == Lower(graph[id].object)
         IN IF obj_lower = target_lower
            THEN [acc EXCEPT !.result = PathOf(Append(path, id))]
            ELSE GetPathRelations(graph, Tail(relations), path, target_lower,
                    IF obj_lower \in acc.visited THEN acc
                    ELSE [acc EXCEPT !.visited = @ \cup {obj_lower},
                                     !.queue = Append(@, [entity |-> graph[id].object,
                                                          path |-> Append(path, id)])])

\* "while queue": acc holds the queue, the visited set, the result once a
\* path is found and the payloads get_relations returned
RECURSIVE GetPathLoop(_, _, _, _, _)
GetPathLoop(graph, index, target_lower, max_depth, acc) ==
    IF acc.queue = <<>> \/ acc.result.found THEN acc
    ELSE LET current == Head(acc.queue)
             rest == [acc EXCEPT !.queue = Tail(@)]
             ids == KGRelationIds(graph, index, current.entity, "outgoing")
         IN IF Len(current.path) >= max_depth
            THEN GetPathLoop(graph, index, target_lower, max_depth, rest)
            ELSE GetPathLoop(graph, index, target_lower, max_depth,
                    GetPathRelations(graph, KGListOf(ids), current.path, target_lower,
                                     [rest EXCEPT !.touched = @ \cup ids]))

GetPath(graph, index, source, target, max_depth) ==
    IF Lower(source) = Lower(target)
    THEN [result |-> PathOf(<<>>), touched |-> {}]
    ELSE GetPathLoop(graph, index, Lower(target), max_depth,
                     [queue |-> <<[entity |-> source, path |-> <<>>]>>,
                      visited |-> {Lower(source)}, result |-> NoPath, touched |-> {}])

KGGetPath(source, target, max_depth) ==
    LET r == GetPath(kg_graph, kg_index, source, target, max_depth)
    IN /\ kg_graph' = KGTouch(kg_graph, r.touched)
       /\ kg_hist' = KGHistAppend([op |-> "get_path", source |-> source, target |-> target,
                                   max_depth |-> max_depth, result |-> r.result])
       /\ UNCHANGED <<kg_disk, kg_index, kg_chroma>>
       /\ UNCHANGED <<tgvars, memvars, extvars>>

\* the graph is built and walked
TravNext ==
    \/ \E s \in TravSubjects, p \in TravPredicates, o \in TravObjects :
          KGAddTriple(s, p, o, 5)
    \/ \E start_entity \in TravStarts, max_depth \in TravDepths, predicates \in TravFilters :
          KGTraverse(start_entity, max_depth, predicates)

PathNext ==
    \/ \E s \in TravSubjects, o \in TravObjects : KGAddTriple(s, "uses", o, 5)
    \/ \E source \in TravStarts, target \in TravObjects, max_depth \in TravDepths :
          KGGetPath(source, target, max_depth)

(***************************************************************************)
(* Consolidation runs over one group of episodes that grows: the episodes  *)
(* share the pattern key backup_db_now and differ in their context and in  *)
(* the last word of their action.                                          *)
(***************************************************************************)
MaxGroupEpisodes == 5

GroupInteractions ==
    {[context |-> <<"terminal">>, action |-> <<"backup", "db", "now", "v1">>,
      valence |-> 6, entities |-> <<>>],
     [context |-> <<"cli">>, action |-> <<"backup", "db", "now", "v2">>,
      valence |-> 6, entities |-> <<>>]}

IdemNext ==
    \/ \E x \in GroupInteractions : RecordInteractionUpTo(MaxGroupEpisodes, x)
    \/ \E dry_run \in BOOLEAN : Consolidate(MinSkillOccurrences, 3, dry_run)

(***************************************************************************)
(* Reads followed by writes on the three stores: one episode, one skill    *)
(* and the triples of one subject.                                         *)
(***************************************************************************)
MaxReadEpisodes == 1

ReadNext ==
    \/ \E x \in ScoreInteractions : RecordInteractionUpTo(MaxReadEpisodes, x)
    \/ \E id \in CacheIds(ep_cache) : GetEpisode(id)
    \/ \E id \in CacheIds(ep_cache) : MarkConsolidated(id)
    \/ \E id \in CacheIds(ep_cache) : ArchiveEpisode(id)
    \/ CreateSkill(<<"test_skill">>, 0)
    \/ \E id \in CacheIds(sk_cache) : GetSkill(id)
    \/ \E id \in CacheIds(sk_cache) : RecordUsage(id, TRUE)
    \/ \E o \in KGObjects : KGAddTriple("python", "uses", o, 5)
    \/ KGGetRelations("python", "outgoing")

(***************************************************************************)
(* Retrieval after mark_consolidated.                                      *)
(***************************************************************************)
MaxMarkedEpisodes == 2

\* get_recent_episodes / get_successful_episodes: Episode.from_dict on every
\* cached payload in turn, then the filter, the sort and the cut
EpListed(st, found) ==
    LET r == EpFromDictAll(st.ep)
    IN [st |-> [st EXCEPT !.ep = r.cache, !.raised = r.raised],
        result |-> IF r.raised THEN <<>> ELSE EpisodeIds(found)]

GetRecentEpisodes(limit) ==
    LET r == EpListed(MemStores, EpRecent(ep_cache, limit))
    IN MemApply(r.st, [op |-> "get_recent_episodes", raised |-> r.st.raised,
                       result |-> r.result])

GetSuccessfulEpisodes(min_valence, limit) ==
    LET r == EpListed(MemStores, EpSuccessful(ep_cache, min_valence, limit))
    IN MemApply(r.st, [op |-> "get_successful_episodes", raised |-> r.st.raised,
                       result |-> r.result])

MarkedNext ==
    \/ \E x \in ScoreInteractions : RecordInteractionUpTo(MaxMarkedEpisodes, x)
    \/ \E id \in CacheIds(ep_cache) : MarkConsolidated(id)
    \/ \E id \in CacheIds(ep_cache) : GetEpisode(id)
    \/ GetRecentEpisodes(10)
    \/ GetSuccessfulEpisodes(3, 20)
    \/ \E order \in Orders(RecallCandidates) : Recall(order, 5, 0, 0)
    \/ MemRestart

Init == TGInit /\ KGInit /\ MemInit /\ SchedInit /\ LoadInit /\ SearchInit

SpecTG == Init /\ [][TGNext]_vars

SpecKG == Init /\ [][KGNext]_vars

SpecMem == Init /\ [][MemNext]_vars

SpecProc == Init /\ [][ProcNext]_vars

SpecScore == Init /\ [][ScoreNext]_vars

SpecSched == Init /\ [][SchedNext]_vars

SpecConc == Init /\ [][ConcNext]_vars

SpecEmbed == Init /\ [][EmbedNext]_vars

SpecLoad == Init /\ [][LoadNext]_vars

SpecBM25 == Init /\ [][BM25Next]_vars

SpecHybrid == Init /\ [][HybridNext]_vars

SpecLife == Init /\ [][LifeNext]_vars

SpecUsage == Init /\ [][UsageNext]_vars

SpecTrav == Init /\ [][TravNext]_vars

SpecPath == Init /\ [][PathNext]_vars

SpecIdem == Init /\ [][IdemNext]_vars

SpecIndex == Init /\ [][IndexNext]_vars

SpecRead == Init /\ [][ReadNext]_vars

SpecMarked == Init /\ [][MarkedNext]_vars

(***************************************************************************)
(* Claims about the temporal graph.                                        *)
(***************************************************************************)
TGOpenOf(pair) ==
    {i \in TGIds : /\ tg_triples[i].subject = pair[1]
                   /\ tg_triples[i].predicate = pair[2]
                   /\ tg_triples[i].valid_to = NoTime}

\* C2: for every (subject, predicate) pair at most one stored version has
\* valid_to = null, and query_at_time at any instant returns at most one such
\* open version per pair.
C2_AtMostOneOpenVersion ==
    \A pair \in TGPairs :
        /\ Cardinality(TGOpenOf(pair)) <= 1
        /\ \A point \in 0..(MaxTime + 1) :
              Cardinality(QueryAtTime(point, pair[1], pair[2], "") \cap TGOpenOf(pair)) <= 1

TGClosedByUpdate(i) ==
    /\ tg_triples[i].valid_to # NoTime
    /\ \E j \in TGIds : tg_triples[j].supersedes = i

\* C3: a version that update has closed (it has a non-null valid_to and a
\* successor) is immutable: no later add, update or invalidate call changes
\* any of its fields.  Those calls are the steps that read the clock.
C3_ClosedVersionImmutable ==
    [][tg_now' # tg_now =>
          \A i \in TGIds : TGClosedByUpdate(i) => tg_triples'[i] = tg_triples[i]]_vars

\* C4: a pair built by add(s,p,o) and k updates of the latest id has a history
\* of k+1 versions in valid_from order, numbered 1..k+1, each after the first
\* superseding its predecessor and starting when the predecessor ends, all but
\* the last not current and the last current.
C4_HistoryOfChain ==
    \A pair \in TGPairs :
        tg_chain[pair].kind = "chain" =>
            LET h == GetHistory(pair[1], pair[2])
                n == Len(h)
            IN /\ n = tg_chain[pair].updates + 1
               /\ \A i \in 1..n :
                     /\ h[i].version = i
                     /\ i > 1 => /\ h[i].supersedes = h[i - 1].id
                                 /\ h[i].valid_from = h[i - 1].valid_to
                     /\ i < n => ~IsCurrent(h[i])
                     /\ i = n => IsCurrent(h[i])

(***************************************************************************)
(* Claims about the knowledge graph.                                       *)
(***************************************************************************)
\* the last two calls were add_triple(s,p,o,c1) then add_triple(s,p,o,c2), the
\* first on a graph that held no (s,p,o)
KGAddedTwice ==
    /\ Len(kg_hist) = 2
    /\ kg_hist[1].op = "add_triple" /\ kg_hist[2].op = "add_triple"
    /\ kg_hist[1].s = kg_hist[2].s /\ kg_hist[1].p = kg_hist[2].p
    /\ kg_hist[1].o = kg_hist[2].o
    /\ kg_hist[1].fresh

KGMax(a, b) == IF a >= b THEN a ELSE b

\* C1: after add_triple(s,p,o,c1) followed by add_triple(s,p,o,c2), both calls
\* return the same identifier, the graph holds exactly one triple for (s,p,o),
\* and that triple's confidence is max(c1, c2).
C1_AddTripleTwice ==
    KGAddedTwice =>
        LET held == KGMatching(kg_graph, kg_hist[2].s, kg_hist[2].p, kg_hist[2].o)
        IN /\ kg_hist[1].result # Raised
           /\ kg_hist[2].result = kg_hist[1].result
           /\ Cardinality(held) = 1
           /\ \A id \in held :
                 kg_graph[id].confidence = KGMax(kg_hist[1].c, kg_hist[2].c)

(***************************************************************************)
(* Claims about the procedural store and the scores.                       *)
(***************************************************************************)
InUnitInterval(x) == RatLeq(Zero, x) /\ RatLeq(x, One)

\* C5: whatever skills the consolidator has created (their first rate is the
\* mean valence of the group, for any min_valence it was given) and whatever
\* uses were recorded since, every stored skill's success_rate lies in [0,1],
\* in the cache and in skills.json.
C5_SuccessRateInUnitInterval ==
    /\ \A i \in DOMAIN sk_cache : InUnitInterval(sk_cache[i].success_rate)
    /\ \A i \in DOMAIN sk_disk : InUnitInterval(sk_disk[i].success_rate)

RunningAverageOf(skill) ==
    skill.usage_count >= 1 =>
        /\ skill.hist_failures = 0 => skill.success_rate = One
        /\ RatLeq(Zero, skill.success_rate)

\* C6: a skill that started with usage_count 0 and has had n >= 1 uses
\* recorded, all of them successes, has success_rate 1; and after any
\* recorded successes and failures its success_rate is not below 0.  This
\* holds of the payload in the cache, where a record_usage that raises has
\* already written the count and the rate, and of the payload in skills.json.
C6_RunningAverage ==
    /\ \A i \in DOMAIN sk_cache : RunningAverageOf(sk_cache[i])
    /\ \A i \in DOMAIN sk_disk : RunningAverageOf(sk_disk[i])

\* a skill with two uses or more recorded, every one of them a success
C6_Witness ==
    \E i \in DOMAIN sk_cache :
        /\ sk_cache[i].usage_count >= 2
        /\ sk_cache[i].hist_failures = 0
        /\ sk_cache[i].success_rate = One

ScoreInUnitInterval(score) ==
    /\ InUnitInterval(score.similarity)
    /\ InUnitInterval(score.importance)
    /\ InUnitInterval(score.recency)
    /\ InUnitInterval(score.access_frequency)
    /\ InUnitInterval(CombinedScore(score))

\* C7: in every pair recall or find_applicable_skills returns, similarity,
\* importance, recency and access_frequency lie in [0,1], and so does the
\* combined score.
C7_ScoresInUnitInterval ==
    (mem_ret.op \in {"recall", "find_applicable_skills"} /\ ~mem_ret.raised) =>
        \A k \in DOMAIN mem_ret.result : ScoreInUnitInterval(mem_ret.result[k].score)

(***************************************************************************)
(* Claims about the consolidator.  A step is a consolidate call exactly    *)
(* when mem_ret' records one, with its arguments.                          *)
(***************************************************************************)
\* the places of the ACTIVE episodes with valence >= min_valence
SuccessfulAt(cache, min_valence) ==
    {i \in DOMAIN cache : /\ cache[i].status = "ACTIVE"
                          /\ cache[i].emotional_valence >= min_valence}

EffectiveMinEpisodes(min_episodes) ==
    IF min_episodes # 0 THEN min_episodes ELSE ConsolidationThreshold

StatusOf(cache) == [i \in DOMAIN cache |-> cache[i].status]

\* a cache's payloads whatever the form of their metadata
ContentOf(cache) == [i \in DOMAIN cache |-> [cache[i] EXCEPT !.metadata = "dict"]]

\* C8: a consolidate call made while fewer than min_episodes episodes are
\* ACTIVE with valence >= min_valence returns a result with every counter at
\* 0 and leaves the episodic store, the procedural store, the knowledge graph
\* and the consolidation log unchanged.
C8_BelowThresholdNoEffect ==
    [][(/\ mem_ret'.op = "consolidate"
        /\ Cardinality(SuccessfulAt(ep_cache, mem_ret'.min_valence))
              < EffectiveMinEpisodes(mem_ret'.min_episodes))
       => /\ ~mem_ret'.raised
          /\ mem_ret'.result = ZeroResult
          /\ ep_cache' = ep_cache /\ ep_disk' = ep_disk /\ ep_chroma' = ep_chroma
          /\ sk_cache' = sk_cache /\ sk_disk' = sk_disk /\ sk_chroma' = sk_chroma
          /\ kg_graph' = kg_graph /\ kg_disk' = kg_disk /\ kg_chroma' = kg_chroma
          /\ cons_log' = cons_log]_vars

\* C9: a consolidate call with dry_run = True changes no episode status,
\* creates or updates no skill, adds no knowledge triple, archives no episode
\* and writes no consolidation log entry.
C9_DryRunNoMutation ==
    [][(mem_ret'.op = "consolidate" /\ mem_ret'.dry_run)
       => /\ StatusOf(ep_cache') = StatusOf(ep_cache)
          /\ ep_disk' = ep_disk /\ ep_chroma' = ep_chroma
          /\ ContentOf(sk_cache') = ContentOf(sk_cache)
          /\ sk_disk' = sk_disk /\ sk_chroma' = sk_chroma
          /\ kg_graph' = kg_graph /\ kg_disk' = kg_disk /\ kg_chroma' = kg_chroma
          /\ cons_log' = cons_log]_vars

\* the keys of the groups a consolidate call has to turn into a new skill:
\* the threshold is met, the group has min_skill_occurrences successful
\* episodes, and no skill bears the name derived from the key
NewSkillKeys(cache, skills, min_episodes, min_valence) ==
    LET at == SuccessfulAt(cache, min_valence)
    IN IF Cardinality(at) < EffectiveMinEpisodes(min_episodes) THEN {}
       ELSE {key \in {ActionKey(cache[i].action) : i \in at} :
                /\ Cardinality({i \in at : ActionKey(cache[i].action) = key})
                      >= MinSkillOccurrences
                /\ \A j \in DOMAIN skills : skills[j].name # SkillName(key)}

\* C10: after a consolidate call that is not a dry run, every such group of n
\* episodes has exactly one skill, whose source_episodes are the n episode
\* ids, and all n episodes are CONSOLIDATED and refer to that skill's id.
C10_GroupBecomesOneSkill ==
    [][(mem_ret'.op = "consolidate" /\ ~mem_ret'.dry_run)
       => \A key \in NewSkillKeys(ep_cache, sk_cache, mem_ret'.min_episodes,
                                  mem_ret'.min_valence) :
             LET ids == {ep_cache[i].id : i \in {k \in SuccessfulAt(ep_cache, mem_ret'.min_valence) :
                                                   ActionKey(ep_cache[k].action) = key}}
                 made == {j \in DOMAIN sk_cache' : sk_cache'[j].name = SkillName(key)}
             IN /\ Cardinality(made) = 1
                /\ \A j \in made :
                      /\ {sk_cache'[j].source_episodes[n] :
                             n \in DOMAIN sk_cache'[j].source_episodes} = ids
                      /\ \A i \in DOMAIN ep_cache' :
                            ep_cache'[i].id \in ids =>
                               /\ ep_cache'[i].status = "CONSOLIDATED"
                               /\ \E n \in DOMAIN ep_cache'[i].consolidated_into :
                                     ep_cache'[i].consolidated_into[n] = sk_cache'[j].id]_vars

\* C11: a consolidate call that is not a dry run and meets the episode
\* threshold returns its ConsolidationResult (no exception leaves it) and
\* appends exactly one entry, that result, to the consolidation log.
C11_ConsolidateCompletes ==
    [][(/\ mem_ret'.op = "consolidate" /\ ~mem_ret'.dry_run
        /\ Cardinality(SuccessfulAt(ep_cache, mem_ret'.min_valence))
              >= EffectiveMinEpisodes(mem_ret'.min_episodes))
       => /\ ~mem_ret'.raised
          /\ cons_log' = Append(cons_log, mem_ret'.result)]_vars

(***************************************************************************)
(* Claims about the scheduler.                                             *)
(***************************************************************************)
\* the invocations whose command for the task is running
RunningJobs(task) ==
    {p \in SchedProcs : sched_proc[p].pc = "job" /\ sched_proc[p].task = task}

\* C12: for every task, at most one execution of its command is in progress
\* at any time, also when two invocations (run or force) overlap.
C12_AtMostOneExecution ==
    \A task \in SchedTaskNames : Cardinality(RunningJobs(task)) <= 1

\* C13: when a task's job ends by the timeout, a non-zero return code or an
\* exception, the invocation records a failure entry for the task and saves
\* it, leaves the task's last_run and run_count as they were, so that a task
\* run because it was due is still due; and no run_all_due pass starts a
\* task's command twice.
C13_FailureKeepsTaskDue ==
    [][\A p \in SchedProcs :
          /\ (sched_proc[p].pc = "job" /\ sched_proc'[p].pc # "job"
              /\ sched_ret'.outcome # "ok")
             => LET task == sched_proc[p].task
                    before == sched_proc[p].state
                IN /\ sched_file'.failures[task] # <<>>
                   /\ sched_file'.last_run = before.last_run
                   /\ sched_file'.run_count = before.run_count
                   /\ sched_proc[p].kind = "run"
                      => /\ sched_proc'[p].state = sched_file'
                         /\ IsDue(sched_file', task, sched_now')
          /\ sched_proc'[p].kind = "run"
             => \A task \in SchedTaskNames : sched_proc'[p].launched[task] <= 1]_vars

\* a run pass saw the job of its first task time out and has gone on to the
\* next task
C13_Witness ==
    /\ sched_ret.outcome = "timeout"
    /\ sched_ret.proc \in SchedProcs
    /\ sched_proc[sched_ret.proc].kind = "run"
    /\ sched_proc[sched_ret.proc].pc = "pass"
    /\ sched_proc[sched_ret.proc].idx = 2
    /\ sched_file.failures[SchedTasks[1]] # <<>>
    /\ sched_file.last_run[SchedTasks[1]] = NoTime

(***************************************************************************)
(* Claims about writers in several processes.                              *)
(***************************************************************************)
\* C14: a skill another process stores while a consolidation run is in
\* progress is not lost: when the run is over, skills.json holds that skill
\* (beside whatever the consolidator has written).
C14_ExternalWriteKept ==
    [][(mem_ret'.op = "consolidate_during_write" /\ mem_ret'.result \in sk_chroma')
       => mem_ret'.result \in CacheIds(sk_disk')]_vars

(***************************************************************************)
(* Claims about recall.  A step is a recall call exactly when mem_ret'     *)
(* records one, with its arguments.                                        *)
(***************************************************************************)
\* the ids of the pairs a call returned
ReturnedIds(result) == {result[k].id : k \in DOMAIN result}

AccessCountOf(cache, id) == cache[CachePos(cache, id)].access_count

\* C15: recall increments access_count for exactly the episodes in the list
\* it returns; every other episode, a candidate cut off by the truncation to
\* n_results included, keeps its access_count.
C15_AccessCountOfReturned ==
    [][mem_ret'.op = "recall"
       => /\ ~mem_ret'.raised
          /\ \A id \in CacheIds(ep_cache) :
                AccessCountOf(ep_cache', id) =
                    AccessCountOf(ep_cache, id)
                       + (IF id \in ReturnedIds(mem_ret'.result) THEN 1 ELSE 0)]_vars

\* the episodes recall has to choose from: in the collection and not
\* ARCHIVED, known to the cache, of importance >= min_importance
EligibleIds(min_importance) ==
    {id \in RecallCandidates \cap CacheIds(ep_cache) :
        ep_cache[CachePos(ep_cache, id)].importance >= min_importance}

\* C16: recall(query, n_results = k, min_importance = m) returns pairs of
\* eligible episodes only, each once, as many as there are up to k (when the
\* query fetches every candidate), in non-increasing order of combined score;
\* so on a store that holds one freshly recorded episode, recall with m = 0
\* returns that episode.
C16_RecallReturnsBest ==
    [][mem_ret'.op = "recall"
       => LET result == mem_ret'.result
              eligible == EligibleIds(mem_ret'.min_importance)
          IN /\ ~mem_ret'.raised
             /\ ReturnedIds(result) \subseteq eligible
             /\ Cardinality(RecallCandidates) <= 2 * mem_ret'.n_results
                => Len(result) = Min(mem_ret'.n_results, Cardinality(eligible))
             /\ Cardinality(ReturnedIds(result)) = Len(result)
             /\ \A k \in 1..(Len(result) - 1) :
                   RatLeq(CombinedScore(result[k + 1].score), CombinedScore(result[k].score))]_vars

(***************************************************************************)
(* Claims about the embedding provider.                                    *)
(***************************************************************************)
\* the call a step made stopped at a provider failure
ProviderFailed(ret) == "embedding_failed" \in DOMAIN ret /\ ret.embedding_failed

\* C17: when the embedding provider fails during record_interaction / store,
\* create_skill / update_skill or add_triple of a new triple, the call ends
\* with the error and the vector collection and the payloads of the stores,
\* in memory and on disk, are as they were.
C17_EmbeddingFailureAtomic ==
    [][ProviderFailed(mem_ret')
       => /\ mem_ret'.raised
          /\ ep_cache' = ep_cache /\ ep_disk' = ep_disk /\ ep_chroma' = ep_chroma
          /\ sk_cache' = sk_cache /\ sk_disk' = sk_disk /\ sk_chroma' = sk_chroma
          /\ kg_graph' = kg_graph /\ kg_disk' = kg_disk /\ kg_index' = kg_index
          /\ kg_chroma' = kg_chroma]_vars

(***************************************************************************)
(* Claims about loading a damaged file.                                    *)
(***************************************************************************)
Unparsable(records) == {i \in DOMAIN records : records[i] # "ok"}

\* C18: a load over a file with exactly one unparsable record does not fail
\* and leaves every other record, and only those, available (episodic,
\* procedural and knowledge side-car files, temporal graph log).
C18_LoadSkipsCorruptRecordOnly ==
    (ld_ret.op = "load" /\ Cardinality(Unparsable(ld_ret.records)) = 1)
        => /\ ~ld_ret.raised
           /\ ld_ret.held = DOMAIN ld_ret.records \ Unparsable(ld_ret.records)

(***************************************************************************)
(* Claims about BM25.                                                      *)
(***************************************************************************)
\* the positions of a document whose token is not a term of the query
OtherTokens(index, query, doc_idx) ==
    {pos \in DOMAIN index.corpus[doc_idx] :
        index.corpus[doc_idx][pos] \notin TokenSet(Tokenize(query))}

\* the index with one more occurrence of term in a document, in the place of
\* another token: idf, doc_lengths and avgdl are as they were
RaiseTermFreq(index, doc_idx, pos, term) ==
    [index EXCEPT !.corpus[doc_idx][pos] = term]

\* the indexes a raise of a query term's frequency in the document leads to
Raised1(index, query, doc_idx) ==
    {RaiseTermFreq(index, doc_idx, pos, term) :
        pos \in OtherTokens(index, query, doc_idx),
        term \in TokenSet(Tokenize(query))}

\* C20: with idf, document length and average length held fixed, raising the
\* frequency of a query term in a document, once or twice, never decreases
\* the score of that document for the query.
C20_ScoreMonotoneInTermFrequency ==
    bm_ret.op = "score" =>
        \A once \in Raised1(bm_index, bm_ret.query, bm_ret.doc_idx) :
            /\ ScoreLeq(bm_ret.result, BM25Score(once, bm_ret.query, bm_ret.doc_idx))
            /\ \A twice \in Raised1(once, bm_ret.query, bm_ret.doc_idx) :
                  ScoreLeq(BM25Score(once, bm_ret.query, bm_ret.doc_idx),
                         BM25Score(twice, bm_ret.query, bm_ret.doc_idx))

\* a score over two documents of different lengths, for a query with two
\* terms of which the document holds one twice, and a raise that changes it
C20_Witness ==
    /\ bm_ret.op = "score"
    /\ Len(bm_index.corpus) = 2
    /\ bm_index.doc_lengths[1] # bm_index.doc_lengths[2]
    /\ Cardinality(TokenSet(Tokenize(bm_ret.query))) = 2
    /\ \E term \in TokenSet(Tokenize(bm_ret.query)) :
          TermFreq(bm_index.corpus[bm_ret.doc_idx], term) = 2
    /\ \E once \in Raised1(bm_index, bm_ret.query, bm_ret.doc_idx) :
          ~ScoreLeq(BM25Score(once, bm_ret.query, bm_ret.doc_idx), bm_ret.result)

(***************************************************************************)
(* Claims about the hybrid search.                                         *)
(***************************************************************************)
MinOfScores(scores) ==
    LET vals == {scores[id] : id \in DOMAIN scores}
    IN CHOOSE m \in vals : \A v \in vals : ScoreLeq(m, v)

\* _normalize_scores over a result set: (s - min) / (max - min), 1 when all
\* the scores are equal; 0 for a document the result set does not hold
NormalizeScores(scores, id) ==
    IF id \notin DOMAIN scores THEN <<0, 1>>
    ELSE IF MaxScore(scores) = MinOfScores(scores) THEN <<1, 1>>
    ELSE RatDiv(RatSub(scores[id], MinOfScores(scores)),
                RatSub(MaxScore(scores), MinOfScores(scores)))

\* bm25_weight * nb + vector_weight * nv of the last search, for a document
NormalizedCombined(id) ==
    HsCombined(NormalizeScores(hs_ret.bm25_scores, id),
                  NormalizeScores(hs_ret.vector_scores, id))

\* the documents of the union that reach min_score
AboveMinScore ==
    {id \in DOMAIN hs_ret.bm25_scores \cup DOMAIN hs_ret.vector_scores :
        ScoreLeq(hs_ret.min_score, NormalizedCombined(id))}

\* C19: search returns the documents of the union of the two result sets
\* whose combined score bm25_weight * nb + vector_weight * nv reaches
\* min_score, nb and nv being the min-max normalized scores of each result
\* set and 0 for a document absent from one, best first, top_k at most.
C19_CombinedOfMinMaxNormalized ==
    hs_ret.op = "search" =>
        LET result == hs_ret.result
        IN /\ Len(result) = Min(hs_ret.top_k, Cardinality(AboveMinScore))
           /\ \A i \in DOMAIN result :
                 /\ result[i].id \in AboveMinScore
                 /\ result[i].combined_score = NormalizedCombined(result[i].id)
                 /\ \A j \in DOMAIN result :
                       i < j => ScoreLeq(result[j].combined_score, result[i].combined_score)
                 /\ \A id \in AboveMinScore \ {result[j].id : j \in DOMAIN result} :
                       ScoreLeq(NormalizedCombined(id), result[i].combined_score)

(***************************************************************************)
(* Claims about the life of an episode.                                    *)
(***************************************************************************)
StatusIn(cache, id) == cache[CachePos(cache, id)].status

\* C21: an episode is created ACTIVE, its status only goes from ACTIVE to
\* CONSOLIDATED or from CONSOLIDATED to ARCHIVED, and no call among
\* record_interaction, consolidate, mark_consolidated and archive_episode
\* takes an episode out of the store.
C21_StatusOnlyMovesForward ==
    [][/\ \A id \in CacheIds(ep_cache') \ CacheIds(ep_cache) :
             StatusIn(ep_cache', id) = "ACTIVE"
       /\ \A id \in CacheIds(ep_cache) :
             /\ id \in CacheIds(ep_cache')
             /\ \/ StatusIn(ep_cache', id) = StatusIn(ep_cache, id)
                \/ /\ StatusIn(ep_cache, id) = "ACTIVE"
                   /\ StatusIn(ep_cache', id) = "CONSOLIDATED"
                \/ /\ StatusIn(ep_cache, id) = "CONSOLIDATED"
                   /\ StatusIn(ep_cache', id) = "ARCHIVED"]_vars

\* the places of the CONSOLIDATED episodes older than the retention window
OldConsolidatedAt(cache) ==
    {i \in DOMAIN cache : /\ cache[i].status = "CONSOLIDATED"
                          /\ cache[i].timestamp < mem_epoch}

\* C22: after a consolidate call that is not a dry run and meets the episode
\* threshold, no CONSOLIDATED episode older than the retention window is
\* left unarchived, and the episodes the call archived were CONSOLIDATED and
\* older than the window.
C22_OldConsolidatedArchived ==
    [][(/\ mem_ret'.op = "consolidate" /\ ~mem_ret'.dry_run
        /\ Cardinality(SuccessfulAt(ep_cache, mem_ret'.min_valence))
              >= EffectiveMinEpisodes(mem_ret'.min_episodes))
       => /\ OldConsolidatedAt(ep_cache') = {}
          /\ \A i \in DOMAIN ep_cache :
                (ep_cache'[i].status = "ARCHIVED" /\ ep_cache[i].status # "ARCHIVED")
                   => /\ ep_cache[i].status # "ACTIVE" \/ ep_cache'[i].consolidated_into # <<>>
                      /\ ep_cache[i].timestamp < mem_epoch]_vars

\* old_rate * (1 - 1/n) + s/n
RunningAverage(old_rate, n, success) ==
    RatAdd(RatMul(old_rate, RatSub(One, Rat(1, n))), Rat(IF success THEN 1 ELSE 0, n))

\* C23: record_usage on a known skill returns true, adds 1 to usage_count,
\* sets success_rate to old_rate*(1 - 1/n) + s/n and leaves the other fields
\* and the other skills as they were; on an unknown id it returns false and
\* changes nothing.  The outcome s given to the call is read from the
\* failures counted beside the payload.
C23_RecordUsageEffect ==
    [][mem_ret'.op = "record_usage"
       => IF mem_ret'.result \in CacheIds(sk_cache)
          THEN LET i == CachePos(sk_cache, mem_ret'.result)
                   n == sk_cache[i].usage_count + 1
               IN /\ mem_ret'.returned
                  /\ DOMAIN sk_cache' = DOMAIN sk_cache
                  /\ \A j \in DOMAIN sk_cache \ {i} : sk_cache'[j] = sk_cache[j]
                  /\ sk_cache'[i] =
                        [sk_cache[i] EXCEPT
                            !.usage_count = n,
                            !.success_rate = RunningAverage(@, n, sk_cache'[i].hist_failures =
                                                        sk_cache[i].hist_failures),
                            !.hist_failures = sk_cache'[i].hist_failures]
          ELSE /\ ~mem_ret'.returned /\ ~mem_ret'.raised
               /\ sk_cache' = sk_cache /\ sk_disk' = sk_disk
               /\ sk_chroma' = sk_chroma]_vars

\* the entities within d edges of start, over the triples of the graph that
\* pass the filter
RECURSIVE ReachedWithin(_, _, _, _)
ReachedWithin(graph, predicates, start_entity, d) ==
    IF d = 0 THEN {Lower(start_entity)}
    ELSE LET before == ReachedWithin(graph, predicates, start_entity, d - 1)
         IN before \cup {Lower(graph[id].object) :
                            id \in {x \in DOMAIN graph :
                                      /\ PassesFilter(graph, x, predicates)
                                      /\ Lower(graph[x].subject) \in before}}

\* the entities first reached at breadth-first distance d
FirstReachedAt(graph, predicates, start_entity, d) ==
    IF d = 0 THEN {Lower(start_entity)}
    ELSE ReachedWithin(graph, predicates, start_entity, d)
            \ ReachedWithin(graph, predicates, start_entity, d - 1)

\* the filter-passing outgoing triples of the entities first reached at d - 1
OutgoingAtDepth(graph, predicates, start_entity, d) ==
    {id \in DOMAIN graph :
        /\ PassesFilter(graph, id, predicates)
        /\ Lower(graph[id].subject) \in FirstReachedAt(graph, predicates, start_entity, d - 1)}

\* the triples traverse's result lists under depth_d
ListedAtDepth(result, d) ==
    IF d \in DOMAIN result THEN {result[d][i] : i \in DOMAIN result[d]} ELSE {}

\* C24: traverse returns, under depth_d for every d from 1 to max_depth,
\* exactly the filter-passing outgoing triples of the entities first reached
\* at breadth-first distance d - 1 from start, and lists no triple twice.
C24_TraverseBreadthFirst ==
    [][kg_hist'[Len(kg_hist')].op = "traverse"
       => LET call == kg_hist'[Len(kg_hist')]
          IN /\ Len(call.result) <= call.max_depth
             /\ \A d \in 1..call.max_depth :
                   ListedAtDepth(call.result, d) =
                      OutgoingAtDepth(kg_graph, call.predicates, call.start, d)
             /\ \A d1, d2 \in DOMAIN call.result :
                   \A i1 \in DOMAIN call.result[d1], i2 \in DOMAIN call.result[d2] :
                      call.result[d1][i1] = call.result[d2][i2] => d1 = d2 /\ i1 = i2]_vars

\* the lengths, up to max_depth, of the directed paths from source to target
PathLengths(graph, source, target, max_depth) ==
    {d \in 1..max_depth : Lower(target) \in ReachedWithin(graph, <<>>, source, d)}

\* path is a chain of triples of the graph from source to target
IsChain(graph, path, source, target) ==
    /\ path # <<>>
    /\ \A i \in DOMAIN path : path[i] \in DOMAIN graph
    /\ Lower(graph[path[1]].subject) = Lower(source)
    /\ \A i \in 1..(Len(path) - 1) :
          Lower(graph[path[i]].object) = Lower(graph[path[i + 1]].subject)
    /\ Lower(graph[path[Len(path)]].object) = Lower(target)

\* C25: get_path returns the empty list when source and target are the same
\* entity, None when the graph has no directed path of at most max_depth
\* edges, and otherwise a chain of triples from source to target of the
\* least length a directed path between them has.
C25_GetPathShortest ==
    [][kg_hist'[Len(kg_hist')].op = "get_path"
       => LET call == kg_hist'[Len(kg_hist')]
              lengths == PathLengths(kg_graph, call.source, call.target, call.max_depth)
          IN IF Lower(call.source) = Lower(call.target)
             THEN call.result = PathOf(<<>>)
             ELSE IF lengths = {}
             THEN call.result = NoPath
             ELSE /\ call.result.found
                  /\ IsChain(kg_graph, call.result.path, call.source, call.target)
                  /\ \A d \in lengths : Len(call.result.path) <= d]_vars

\* source_episodes after the ids of a group were appended, each once
RECURSIVE AppendNew(_, _)
AppendNew(sources, episode_ids) ==
    IF episode_ids = <<>> THEN sources
    ELSE AppendNew(IF \E k \in DOMAIN sources : sources[k] = Head(episode_ids)
                   THEN sources ELSE Append(sources, Head(episode_ids)),
                   Tail(episode_ids))

\* the groups a consolidate run turns into skills
SkillGroups(cache, min_episodes, min_valence) ==
    LET successful == EpSuccessful(cache, min_valence, SuccessfulLimit)
    IN IF Len(successful) < min_episodes THEN <<>>
       ELSE SelectSeq(GroupByPattern(successful, <<>>),
                      LAMBDA g : Len(g.episodes) >= MinSkillOccurrences)

\* the skill named after group is what the claim says of it after the run
UpdatedByGroup(before, after, group) ==
    LET i == SkPosByName(before, SkillName(group.key))
    IN i # 0 =>
        /\ Len(after) = Len(before)
        /\ after[i].id = before[i].id
        /\ after[i].usage_count = before[i].usage_count
        /\ after[i].success_rate = before[i].success_rate
        /\ after[i].pattern =
              FindCommonPattern([k \in DOMAIN group.episodes |-> group.episodes[k].action])
        /\ after[i].trigger_conditions =
              ExtractTriggerConditions([k \in DOMAIN group.episodes |->
                                           group.episodes[k].context])
        /\ after[i].source_episodes =
              AppendNew(before[i].source_episodes, EpisodeIds(group.episodes))

\* C26: a consolidate run leaves at most one skill per derived name; for a
\* group whose derived name already has a skill it creates none, gives that
\* skill the group's pattern and trigger conditions, appends the group's
\* episode ids to source_episodes, each once, and keeps the skill's id,
\* usage_count and success_rate.
C26_OneSkillPerName ==
    [][mem_ret'.op = "consolidate" /\ ~mem_ret'.dry_run
       => /\ \A i, j \in DOMAIN sk_cache' : sk_cache'[i].name = sk_cache'[j].name => i = j
          /\ LET groups == SkillGroups(ep_cache, mem_ret'.min_episodes, mem_ret'.min_valence)
             IN groups # <<>> => UpdatedByGroup(sk_cache, sk_cache', groups[1])]_vars

\* the documents of the engine that hold a token of the query
HoldingQueryTerm(documents, query) ==
    {documents[i][1] : i \in {k \in DOMAIN documents :
        TokenSet(Tokenize(documents[k][2])) \cap TokenSet(Tokenize(query)) # {}}}

\* the documents BM25.search gives a score above 0
BM25Candidates(index, query) ==
    LET found == BM25Search(index, query, Len(index.corpus))
    IN {found[i].id : i \in DOMAIN found}

\* C27: the BM25 index covers exactly the engine's documents (same ids, same
\* contents, in the same order), so every document that holds a query term
\* is a BM25 candidate.
C27_BM25CoversDocuments ==
    /\ bm_index.doc_ids = [i \in DOMAIN hs_documents |-> hs_documents[i][1]]
    /\ bm_index.corpus = [i \in DOMAIN hs_documents |-> Tokenize(hs_documents[i][2])]
    /\ \A query \in HsQueries :
          HoldingQueryTerm(hs_documents, query) \subseteq BM25Candidates(bm_index, query)

\* the writes the claim names, as mem_ret keeps them
WriteOps == {"record_interaction", "record_usage", "mark_consolidated", "archive_episode",
             "create_skill"}

\* C28: a read (get_episode, get_skill, get_relations) leaves every stored
\* payload as it was, form of the metadata included, apart from the access
\* count that get_episode raises; and a write that follows on the store
\* (store, record_usage, mark_consolidated, archive_episode, add_triple)
\* succeeds.
C28_ReadsLeavePayloads ==
    [][/\ mem_ret'.op = "get_episode"
          => /\ DOMAIN ep_cache' = DOMAIN ep_cache
             /\ \A i \in DOMAIN ep_cache :
                   ep_cache'[i] = [ep_cache[i] EXCEPT
                                      !.access_count = ep_cache'[i].access_count]
       /\ mem_ret'.op = "get_skill" => sk_cache' = sk_cache
       /\ kg_hist' # <<>> /\ kg_hist'[Len(kg_hist')].op = "other" => kg_graph' = kg_graph
       /\ mem_ret'.op \in WriteOps => ~mem_ret'.raised
       /\ kg_hist' # <<>> /\ kg_hist'[Len(kg_hist')].op = "add_triple"
          => kg_hist'[Len(kg_hist')].result # Raised]_vars

RetrievalOps == {"get_episode", "get_recent_episodes", "get_successful_episodes", "recall"}

\* the episodes mark_consolidated has marked
MarkedIds(cache) == {cache[i].id : i \in {k \in DOMAIN cache : cache[k].consolidated_into # <<>>}}

\* C29: on a store that holds marked episodes, get_episode,
\* get_recent_episodes, get_successful_episodes and recall complete without
\* error; get_episode of a marked episode finds it CONSOLIDATED and
\* get_recent_episodes lists the marked episodes.
C29_MarkedStayRetrievable ==
    [][mem_ret'.op \in RetrievalOps /\ MarkedIds(ep_cache) # {}
       => /\ ~mem_ret'.raised
          /\ mem_ret'.op = "get_episode" /\ mem_ret'.result \in MarkedIds(ep_cache)
             => ep_cache'[CachePos(ep_cache', mem_ret'.result)].status = "CONSOLIDATED"
          /\ mem_ret'.op = "get_recent_episodes"
             => MarkedIds(ep_cache) \subseteq
                   {mem_ret'.result[i] : i \in DOMAIN mem_ret'.result}]_vars

\* C30: a restart (the index rebuilt from the log) yields the versions the
\* graph held before it, each with the valid_to it had; a version closed by
\* update or invalidate is still closed.
C30_RestartKeepsVersions ==
    [][tg_ret'.op = "restart" => tg_triples' = tg_triples]_vars

====
